---- MODULE Spec2Model ----
(***************************************************************************)
(* A state-machine model of the AI travel photo generator front end:       *)
(* the App component (src/unnamed/part_000), InstantIDModule and           *)
(* PhotoMakerModule (src/src/components/InstantIDModule.tsx) and           *)
(* FaceSwapModule (src/src/components/FaceSwapModule.tsx).                 *)
(*                                                                         *)
(* React state is one variable per useState cell.  An async handler is a   *)
(* run: a record holding the values its closure captured when it was       *)
(* called, its position (pc) and its locals.  JavaScript runs a handler    *)
(* without interruption between two awaits, so one action is one such      *)
(* segment; the state updates of a segment are applied together, as React  *)
(* batches them.  The external service (blink.storage.upload,              *)
(* blink.ai.generateImage, blink.ai.modifyImage) and the timers are the    *)
(* environment: each pending promise resolves or rejects in its own step.  *)
(***************************************************************************)
EXTENDS Integers, Sequences, FiniteSets, TLC

VARIABLES
    user,                 \* App: signed-in user (TRUE) or null (FALSE)
    activeTab,            \* App: 'single' | 'model' | 'instant' | 'faceswap'
    selectedFile,         \* App: the chosen photo, or NoFile
    selectedDestination,  \* App: destination id, '' when none
    generateMultiple,     \* App
    useCustomModel,       \* App
    isGenerating,         \* App
    generationProgress,   \* App
    generatedImages,      \* App: the gallery, newest first
    trainingImages,       \* App: previews of the training dataset
    currentModel,         \* App: NoModel or a LoRAModel record
    isTrainingModel,      \* App
    trainingProgress,     \* App
    instantID,            \* state of the mounted InstantIDModule instance
    faceSwap,             \* state of the mounted FaceSwapModule instance
    photoMaker,           \* state and props of a PhotoMakerModule instance
    runs,                 \* the handler runs in flight, and those that ended since
                          \* the last call of a handler of the page, in start order
    nextId,               \* per preview list: how many previews were created;
                          \* at "run": how many handler runs were started
    revoked,              \* object URLs passed to URL.revokeObjectURL
    returned              \* the handler whose last call returned at its guard

appVars  == <<user, activeTab, selectedFile, selectedDestination, generateMultiple,
              useCustomModel, isGenerating, generationProgress, generatedImages,
              trainingImages, currentModel, isTrainingModel, trainingProgress>>
modVars  == <<instantID, faceSwap, photoMaker>>
progVars == <<appVars, modVars, runs, nextId, revoked>>
vars     == <<progVars, returned>>

----------------------------------------------------------------------------
(* Bounds of the model. *)

\* handler runs started in one behaviour
MaxRuns == 2
\* training previews created in one behaviour
MaxTrainingPreviews == 6
\* reference-image previews created per module in one behaviour
MaxReferencePreviews == 2
\* face portraits created in one behaviour
MaxPortraits == 2
\* items the AI service returns in one response
MaxData == 2

----------------------------------------------------------------------------
(* Program constants. *)

\* trainLoRAModel's minimum dataset size
MinTrainingImages == 5
\* upload-phase progress span of trainLoRAModel and generateWithPhotoMaker
UploadSpan25 == 25
\* upload-phase progress span of generateWithInstantID
UploadSpan30 == 30

\* null where a File or a preview is expected; files and previews are pairs
NoFile  == <<"null", 0>>
NoModel == [status |-> "null", trainingImages |-> <<>>, progress |-> 0]
NoDest  == ""

\* Two of the eight entries of TRAVEL_DESTINATIONS; every entry has the same shape.
TRAVEL_DESTINATIONS ==
    { [id |-> "paris", name |-> "Paris, France", description |-> "Eiffel Tower backdrop"],
      [id |-> "tokyo", name |-> "Tokyo, Japan", description |-> "Cherry blossoms & temples"] }

DestinationIds == { d.id : d \in TRAVEL_DESTINATIONS }

\* TRAVEL_DESTINATIONS.find(d => d.id === id); NoFind stands for undefined.
NoFind == [id |-> "undefined", name |-> "undefined", description |-> "undefined"]
FindDestination(id) ==
    IF \E d \in TRAVEL_DESTINATIONS : d.id = id
    THEN CHOOSE d \in TRAVEL_DESTINATIONS : d.id = id
    ELSE NoFind

----------------------------------------------------------------------------
(* Progress values.  (i / n) * span is not an integer in general: a        *)
(* progress value is an exact fraction <<numerator, denominator>> in       *)
(* lowest terms.                                                           *)

RECURSIVE Gcd(_, _)
Gcd(a, b) == IF b = 0 THEN a ELSE Gcd(b, a % b)

Frac(a, b) == LET g == Gcd(a, b) IN IF g = 0 THEN <<0, 1>> ELSE <<a \div g, b \div g>>
Pct(x) == <<x, 1>>
Leq(p, q) == p[1] * q[2] <= q[1] * p[2]
Less(p, q) == p[1] * q[2] < q[1] * p[2]

\* a variant that counts the upload in progress as done: ((i + 1) / n) * span
UploadProgressAfter(i, n, span) == Frac((i + 1) * span, n)

\* (i / n) * span, the value set before the upload of image i (0-based)
UploadProgress(i, n, span) == Frac(i * span, n)

----------------------------------------------------------------------------
(* Previews and URLs.  A preview's id (a Date.now() and Math.random()      *)
(* string) and its object URL (URL.createObjectURL) are fresh on every     *)
(* creation: preview k of a list is <<list, k>>, and stands for the        *)
(* record {id, file, url}.                                                  *)

PreviewLists == {"training", "reference", "photomaker", "portrait"}

NewPreviews(list, k) == [j \in 1..k |-> <<list, nextId[list] + j>>]

\* the publicUrl blink.storage.upload resolves with for a file
PublicUrl(file) == <<"public", file>>

\* prev.filter(img => img.id !== id)
RECURSIVE Filter(_, _)
Filter(s, id) ==
    IF s = <<>> THEN <<>>
    ELSE IF Head(s) = id THEN Filter(Tail(s), id)
         ELSE <<Head(s)>> \o Filter(Tail(s), id)

Range(s) == { s[j] : j \in 1..Len(s) }

----------------------------------------------------------------------------
(* External calls, as the service sees them. *)

Upload(file, folder, i) ==
    [api |-> "upload", images |-> <<file>>, prompt |-> <<folder, i>>,
     quality |-> "", size |-> "", n |-> 0]

GenerateImage(prompt, n) ==
    [api |-> "generateImage", images |-> <<>>, prompt |-> prompt,
     quality |-> "high", size |-> "1024x1024", n |-> n]

ModifyImage(images, prompt, n) ==
    [api |-> "modifyImage", images |-> images, prompt |-> prompt,
     quality |-> "high", size |-> "1024x1024", n |-> n]

\* the `data` an AI call of the run numbered id may resolve with: 0..MaxData items
\* (an absent `data` behaves as the empty list everywhere it is read)
Responses(tag, id) == { [k \in 1..len |-> [url |-> <<tag, id, k>>]] : len \in 0..MaxData }

----------------------------------------------------------------------------
(* Runs. *)

\* A handler call that passed its guard: what the closure captured, and its locals.
\*   images       the list (or the one file) the closure read
\*   dest         selectedDestination as captured
\*   multi        generateMultiple as captured
\*   custom       useCustomModel (App) or a non-blank customPrompt (PhotoMaker)
\*   model        currentModel as captured
\*   pre          what held when the handler was called: user, destination, input
\*   attached     the component instance that started the run is still mounted
\*   i            uploads resolved so far; pending: upload indices in flight
\*   calls        the external calls issued so far, in order
\*   sets         the values passed to the progress setter so far, in order
\*   reported     the images handed to the gallery or to onImageGenerated, in order
\*   outcome      "running", "ok", or what was thrown: "rejected" (a promise
\*                rejected), "nodestination" ('Invalid destination'), "noscene"
\*                ('Failed to generate travel scene'), "nodata" ('Failed to generate
\*                image')
NewRun(kind, images, dest, pre) ==
    [id |-> nextId["run"] + 1, kind |-> kind, pc |-> "upload", attached |-> TRUE, images |-> images, dest |-> dest,
     multi |-> generateMultiple, custom |-> useCustomModel, model |-> currentModel,
     pre |-> pre,
     i |-> 0, pending |-> {}, uploadedUrls |-> <<>>, scene |-> <<>>, t |-> 0,
     calls |-> <<>>, sets |-> <<>>, reported |-> <<>>, outcome |-> "running"]

RunIds == 1..Len(runs)
IsLive(run) == run.pc # "done"

\* the next call of a handler of the page drops the runs that have ended
Kept == SelectSeq(runs, IsLive)

\* a handler call that passes its guard: the new run joins the runs in flight
CanStart == nextId["run"] < MaxRuns
Started(run) == Append(Kept, run)

\* the upload folder of a handler's storage path
Folder(kind) ==
    CASE kind = "train" -> "lora-training"
      [] kind = "single" -> "originals"
      [] kind = "instant" -> "instant-id"
      [] kind = "photomaker" -> "photomaker"
      [] OTHER -> "face-portraits"

\* a variant whose loop starts no upload
UploadsToIssueNone(run) == {}

\* a variant that starts every upload at once (a Promise.all over the list)
UploadsToIssueAll(run) ==
    IF run.i = 0 /\ run.pending = {} THEN 1..Len(run.images) ELSE {}

\* `for (let i = 0; ...) { ...; await blink.storage.upload(...) }`: the indices
\* (1-based) whose upload is started now, i uploads having resolved.
UploadsToIssue(run) ==
    IF run.pending = {} /\ run.i < Len(run.images) THEN {run.i + 1} ELSE {}

RECURSIVE UploadCalls(_, _, _)
UploadCalls(run, from, issue) ==
    IF from > Len(run.images) THEN <<>>
    ELSE (IF from \in issue
          THEN <<Upload(run.images[from], Folder(run.kind), from - 1)>>
          ELSE <<>>) \o UploadCalls(run, from + 1, issue)

\* one pass through the head of the upload loop: set the progress, start the upload
EnterLoop(run, span) ==
    LET issue == UploadsToIssue(run) IN
    [run EXCEPT !.pending = @ \cup issue,
                !.calls = @ \o UploadCalls(run, 1, issue),
                !.sets = IF issue = {} THEN @
                         ELSE Append(@, UploadProgress(run.i, Len(run.images), span))]

\* an upload resolved: uploadedUrls.push(publicUrl), i++
Pushed(run, j) ==
    [run EXCEPT !.uploadedUrls = Append(@, PublicUrl(run.images[j])),
                !.i = @ + 1,
                !.pending = @ \ {j}]

\* the finally block's setProgress(0), and the end of the run
Finished(run, outcome, values) ==
    [run EXCEPT !.pc = "done", !.outcome = outcome, !.pending = {},
                !.sets = @ \o values \o <<Pct(0)>>]

Last(s) == s[Len(s)]

Failed(run) == run.outcome \notin {"running", "ok"}

----------------------------------------------------------------------------
(* What the JSX renders. *)

\* `if (!user) return (<sign-in card>)`
\* the page's root component is App, or a host of PhotoMakerModule, which App
\* does not mount
AppPage == ~photoMaker.mounted

AppRendered == user

\* the "Train LoRA Model" button: model tab, no model yet, not training, enabled
TrainButtonEnabled ==
    /\ AppRendered /\ activeTab = "model"
    /\ currentModel = NoModel /\ ~isTrainingModel
    /\ ~(Len(trainingImages) < MinTrainingImages)

\* the training dataset card (file input, "Clear All", the per-image remove button)
TrainingDatasetRendered == AppRendered /\ activeTab = "model"

----------------------------------------------------------------------------
(* App: authentication, tabs and selections. *)

InitialInstantID == [referenceImages |-> <<>>, isGenerating |-> FALSE,
                     generationProgress |-> Pct(0)]
InitialFaceSwap  == [facePortrait |-> NoFile, isGenerating |-> FALSE,
                     generationProgress |-> Pct(0)]
InitialPhotoMaker == [referenceImages |-> <<>>, isGenerating |-> FALSE,
                      generationProgress |-> Pct(0), customPrompt |-> FALSE,
                      generateMultiple |-> TRUE, selectedDestination |-> NoDest,
                      user |-> FALSE, mounted |-> TRUE]

\* a module instance is mounted while its tab is shown to a signed-in user
InstantIDMounted == user /\ activeTab = "instant"
FaceSwapMounted  == user /\ activeTab = "faceswap"

\* the runs of an unmounted module instance keep going, detached from its state
Detached(kinds) ==
    [r \in 1..Len(Kept) |-> IF Kept[r].kind \in kinds
                            THEN [Kept[r] EXCEPT !.attached = FALSE] ELSE Kept[r]]

\* blink.auth.onAuthStateChanged: sign-in
Login ==
    /\ AppPage
    /\ ~user
    /\ user' = TRUE
    /\ runs' = Kept
    /\ UNCHANGED <<activeTab, selectedFile, selectedDestination, generateMultiple,
                   useCustomModel, isGenerating, generationProgress, generatedImages,
                   trainingImages, currentModel, isTrainingModel, trainingProgress,
                   modVars, nextId, revoked, returned>>

\* blink.auth.logout(): App renders the sign-in card, the mounted module goes
Logout ==
    /\ user
    /\ user' = FALSE
    /\ instantID' = InitialInstantID
    /\ faceSwap' = InitialFaceSwap
    /\ runs' = Detached({"instant", "faceswap"})
    /\ UNCHANGED <<activeTab, selectedFile, selectedDestination, generateMultiple,
                   useCustomModel, isGenerating, generationProgress, generatedImages,
                   trainingImages, currentModel, isTrainingModel, trainingProgress,
                   photoMaker, nextId, revoked, returned>>

\* the tab buttons: setActiveTab(tab)
SetActiveTab(tab) ==
    /\ AppRendered
    /\ tab # activeTab
    /\ activeTab' = tab
    /\ instantID' = InitialInstantID
    /\ faceSwap' = InitialFaceSwap
    /\ runs' = Detached({"instant", "faceswap"})
    /\ UNCHANGED <<user, selectedFile, selectedDestination, generateMultiple,
                   useCustomModel, isGenerating, generationProgress, generatedImages,
                   trainingImages, currentModel, isTrainingModel, trainingProgress,
                   photoMaker, nextId, revoked, returned>>

\* the destination buttons: setSelectedDestination(destination.id)
SetSelectedDestination(id) ==
    /\ AppRendered
    /\ id \in DestinationIds
    /\ id # selectedDestination
    /\ selectedDestination' = id
    /\ runs' = Kept
    /\ UNCHANGED <<user, activeTab, selectedFile, generateMultiple,
                   useCustomModel, isGenerating, generationProgress, generatedImages,
                   trainingImages, currentModel, isTrainingModel, trainingProgress,
                   modVars, nextId, revoked, returned>>

----------------------------------------------------------------------------
(* App: the training dataset. *)

\* handleMultipleFileSelect with k image files among the chosen files
HandleMultipleFileSelect(k) ==
    /\ TrainingDatasetRendered
    /\ k >= 1
    /\ nextId["training"] + k <= MaxTrainingPreviews
    /\ trainingImages' = trainingImages \o NewPreviews("training", k)
    /\ nextId' = [nextId EXCEPT !["training"] = @ + k]
    /\ runs' = Kept
    /\ UNCHANGED <<user, activeTab, selectedFile, selectedDestination, generateMultiple,
                   useCustomModel, isGenerating, generationProgress, generatedImages,
                   currentModel, isTrainingModel, trainingProgress,
                   modVars, revoked, returned>>

\* a variant that filters the list and revokes nothing
RevokedByRemoveNone(list, id) == {}

\* the previews removeTrainingImage(id) revokes: prev.find(img => img.id === id)
RevokedByRemove(list, id) == IF id \in Range(list) THEN {id} ELSE {}

\* the previews clearTrainingImages / clearReferenceImages revokes: list.forEach(...)
RevokedByClear(list) == Range(list)

RemoveTrainingImage(id) ==
    /\ TrainingDatasetRendered
    /\ id \in Range(trainingImages)
    /\ revoked' = revoked \cup RevokedByRemove(trainingImages, id)
    /\ trainingImages' = Filter(trainingImages, id)
    /\ runs' = Kept
    /\ UNCHANGED <<user, activeTab, selectedFile, selectedDestination, generateMultiple,
                   useCustomModel, isGenerating, generationProgress, generatedImages,
                   currentModel, isTrainingModel, trainingProgress,
                   modVars, nextId, returned>>

ClearTrainingImages ==
    /\ TrainingDatasetRendered
    /\ Len(trainingImages) > 0
    /\ revoked' = revoked \cup RevokedByClear(trainingImages)
    /\ trainingImages' = <<>>
    /\ runs' = Kept
    /\ UNCHANGED <<user, activeTab, selectedFile, selectedDestination, generateMultiple,
                   useCustomModel, isGenerating, generationProgress, generatedImages,
                   currentModel, isTrainingModel, trainingProgress,
                   modVars, nextId, returned>>

----------------------------------------------------------------------------
(* App: trainLoRAModel. *)

\* a variant without the test of the dataset size
TrainGuardNoMinimum(images, u) == u

\* `if (trainingImages.length < 5) return` and `if (!user) return`, negated
TrainGuard(images, u) == ~(Len(images) < MinTrainingImages) /\ u

\* the timer phase: the progress set after each setTimeout fires
\* (delays 1500, 1500, 2500, 2500, 2500, 2500, 2000, 1500 ms)
TrainingTimeline == <<40, 50, 60, 70, 80, 90, 95, 100>>

\* setCurrentModel(prev => prev ? { ...prev, progress } : null)
WithProgress(model, p) == IF model = NoModel THEN NoModel ELSE [model EXCEPT !.progress = p]

\* setCurrentModel(prev => prev ? { ...prev, status: 'failed' } : null)
WithFailed(model) == IF model = NoModel THEN NoModel ELSE [model EXCEPT !.status = "failed"]

\* newModel, and completedModel = { ...newModel, status: 'ready', progress: 100 }
NewModel(uploadedUrls) == [status |-> "training", trainingImages |-> uploadedUrls, progress |-> 30]

\* a variant that leaves the status at 'training'
CompletedModelStillTraining(uploadedUrls) == [NewModel(uploadedUrls) EXCEPT !.progress = 100]

CompletedModel(uploadedUrls) == [NewModel(uploadedUrls) EXCEPT !.status = "ready", !.progress = 100]

\* A call of trainLoRAModel: by the button when `ui`, as a function otherwise.
TrainLoRAModel(ui) ==
    /\ AppPage
    /\ ui => TrainButtonEnabled
    /\ IF ~TrainGuard(trainingImages, user)
       THEN /\ returned' = "trainLoRAModel"
            /\ UNCHANGED progVars
       ELSE /\ CanStart
            /\ LET run == [NewRun("train", trainingImages, selectedDestination,
                                  [user |-> user, dest |-> TRUE,
                                   input |-> Len(trainingImages) >= MinTrainingImages])
                           EXCEPT !.sets = <<Pct(0)>>]
               IN runs' = Started(EnterLoop(run, UploadSpan25))
            /\ nextId' = [nextId EXCEPT !["run"] = @ + 1]
            /\ isTrainingModel' = TRUE
            /\ trainingProgress' = Last(Last(runs').sets)
            /\ returned' = "none"
            /\ UNCHANGED <<user, activeTab, selectedFile, selectedDestination,
                           generateMultiple, useCustomModel, isGenerating,
                           generationProgress, generatedImages, trainingImages,
                           currentModel, modVars, revoked>>

\* an upload of a training run resolves: next upload, or phase 2 and the first timer
TrainUploadResolved(r, j) ==
    /\ runs[r].kind = "train" /\ runs[r].pc = "upload"
    /\ j \in runs[r].pending
    /\ LET run == EnterLoop(Pushed(runs[r], j), UploadSpan25) IN
       IF run.pending # {}
       THEN /\ runs' = [runs EXCEPT ![r] = run]
            /\ trainingProgress' = Last(run.sets)
            /\ UNCHANGED currentModel
       ELSE /\ runs' = [runs EXCEPT ![r] = [run EXCEPT !.pc = "timer", !.t = 1,
                                                      !.sets = Append(@, Pct(30))]]
            /\ trainingProgress' = Pct(30)
            /\ currentModel' = NewModel(run.uploadedUrls)
    /\ UNCHANGED <<user, activeTab, selectedFile, selectedDestination, generateMultiple,
                   useCustomModel, isGenerating, generationProgress, generatedImages,
                   trainingImages, isTrainingModel, modVars, nextId, revoked, returned>>

\* an upload of a training run rejects: catch, finally
TrainUploadRejected(r, j) ==
    /\ runs[r].kind = "train" /\ runs[r].pc = "upload"
    /\ j \in runs[r].pending
    /\ runs' = [runs EXCEPT ![r] = Finished(runs[r], "rejected", <<>>)]
    /\ currentModel' = WithFailed(currentModel)
    /\ isTrainingModel' = FALSE
    /\ trainingProgress' = Pct(0)
    /\ UNCHANGED <<user, activeTab, selectedFile, selectedDestination, generateMultiple,
                   useCustomModel, isGenerating, generationProgress, generatedImages,
                   trainingImages, modVars, nextId, revoked, returned>>

\* a timer of the training run fires: the next progress step, or completion
TrainTimerFired(r) ==
    /\ runs[r].kind = "train" /\ runs[r].pc = "timer"
    /\ LET t == runs[r].t
           p == TrainingTimeline[t]
       IN IF t < Len(TrainingTimeline)
          THEN /\ runs' = [runs EXCEPT ![r] = [@ EXCEPT !.t = t + 1,
                                                        !.sets = Append(@, Pct(p))]]
               /\ trainingProgress' = Pct(p)
               /\ currentModel' = WithProgress(currentModel, p)
               /\ UNCHANGED <<useCustomModel, isTrainingModel>>
          ELSE /\ runs' = [runs EXCEPT ![r] = Finished(@, "ok", <<Pct(p)>>)]
               /\ currentModel' = CompletedModel(runs[r].uploadedUrls)
               /\ useCustomModel' = TRUE
               /\ isTrainingModel' = FALSE
               /\ trainingProgress' = Pct(0)
    /\ UNCHANGED <<user, activeTab, selectedFile, selectedDestination, generateMultiple,
                   isGenerating, generationProgress, generatedImages,
                   trainingImages, modVars, nextId, revoked, returned>>

----------------------------------------------------------------------------
(* App: the gallery. *)

\* data.map((img, index) => ({ url: img.url, destination: destination.name, ... }))
NewImages(data, destination, originalImage, originalImages) ==
    [k \in 1..Len(data) |-> [url |-> data[k].url, destination |-> destination.name,
                             originalImage |-> originalImage,
                             originalImages |-> originalImages]]

\* a variant that puts the image at the end of the gallery
HandleInstantIDImageGeneratedLast(image, prev) == prev \o <<image>>

\* a variant that sets the gallery from the image alone
HandleInstantIDImageGeneratedOnly(image, prev) == <<image>>

\* handleInstantIDImageGenerated: setGeneratedImages(prev => [image, ...prev])
HandleInstantIDImageGenerated(image, prev) == <<image>> \o prev

\* newImages.forEach(img => onImageGenerated(img)), from the gallery `prev`
RECURSIVE ForEachImageGenerated(_, _)
ForEachImageGenerated(images, prev) ==
    IF images = <<>> THEN prev
    ELSE ForEachImageGenerated(Tail(images), HandleInstantIDImageGenerated(Head(images), prev))

----------------------------------------------------------------------------
(* App: generateTravelPhoto. *)

\* the file input and the drop zone of the single tab: setSelectedFile(file)
HandleFileSelect(file) ==
    /\ AppRendered /\ activeTab = "single"
    /\ file # selectedFile
    /\ selectedFile' = file
    /\ runs' = Kept
    /\ UNCHANGED <<user, activeTab, selectedDestination, generateMultiple,
                   useCustomModel, isGenerating, generationProgress, generatedImages,
                   trainingImages, currentModel, isTrainingModel, trainingProgress,
                   modVars, nextId, revoked, returned>>

\* the checkbox of the generation options card: setGenerateMultiple(checked)
SetGenerateMultiple(checked) ==
    /\ AppRendered /\ activeTab \in {"single", "faceswap"}
    /\ checked # generateMultiple
    /\ generateMultiple' = checked
    /\ runs' = Kept
    /\ UNCHANGED <<user, activeTab, selectedFile, selectedDestination,
                   useCustomModel, isGenerating, generationProgress, generatedImages,
                   trainingImages, currentModel, isTrainingModel, trainingProgress,
                   modVars, nextId, revoked, returned>>

\* the two "use custom model" checkboxes, rendered once the model is ready
SetUseCustomModel(checked) ==
    /\ AppRendered /\ activeTab # "instant"
    /\ currentModel.status = "ready"
    /\ checked # useCustomModel
    /\ useCustomModel' = checked
    /\ runs' = Kept
    /\ UNCHANGED <<user, activeTab, selectedFile, selectedDestination,
                   generateMultiple, isGenerating, generationProgress, generatedImages,
                   trainingImages, currentModel, isTrainingModel, trainingProgress,
                   modVars, nextId, revoked, returned>>

\* the "Generate Travel Photo" button: single tab, not generating, enabled
GenerateButtonEnabled ==
    /\ AppRendered /\ activeTab = "single" /\ ~isGenerating
    /\ ~(selectedFile = NoFile \/ selectedDestination = NoDest)

\* a variant without the test of the destination
GenerateGuardNoDestination(file, dest, u) == file # NoFile /\ u

\* `if (!selectedFile || !selectedDestination || !user) return`, negated
GenerateGuard(file, dest, u) == file # NoFile /\ dest # NoDest /\ u

\* a variant that always asks for three variations
TravelPhotoRequestThree(url, destination, multi, custom, model) ==
    ModifyImage(<<url>>,
                IF custom /\ model.status = "ready"
                THEN <<"[LoRA Model Enhanced]", destination.description, destination.name>>
                ELSE <<"face preservation", destination.description, destination.name>>,
                3)

\* a variant that tests the model's status only, not the checkbox
TravelPhotoRequestModelOnly(url, destination, multi, custom, model) ==
    ModifyImage(<<url>>,
                IF model.status = "ready"
                THEN <<"[LoRA Model Enhanced]", destination.description, destination.name>>
                ELSE <<"face preservation", destination.description, destination.name>>,
                IF multi THEN 3 ELSE 1)

\* the prompt and the request generateTravelPhoto builds; `model` and `custom`
\* are currentModel and useCustomModel as the closure captured them
TravelPhotoRequest(url, destination, multi, custom, model) ==
    ModifyImage(<<url>>,
                IF custom /\ model.status = "ready"
                THEN <<"[LoRA Model Enhanced]", destination.description, destination.name>>
                ELSE <<"face preservation", destination.description, destination.name>>,
                IF multi THEN 3 ELSE 1)

\* a variant of the finally block that leaves the progress where it is
AppGenerationFinallyKeepsProgress ==
    /\ isGenerating' = FALSE
    /\ UNCHANGED generationProgress

\* the finally block of the two App generation handlers
AppGenerationFinally ==
    /\ isGenerating' = FALSE
    /\ generationProgress' = Pct(0)

GenerateTravelPhoto(ui) ==
    /\ AppPage
    /\ ui => GenerateButtonEnabled
    /\ IF ~GenerateGuard(selectedFile, selectedDestination, user)
       THEN /\ returned' = "generateTravelPhoto"
            /\ UNCHANGED progVars
       ELSE /\ CanStart
            /\ LET run == NewRun("single", <<selectedFile>>, selectedDestination,
                                 [user |-> user, dest |-> selectedDestination # NoDest,
                                  input |-> selectedFile # NoFile])
               IN runs' = Started([run EXCEPT !.sets = <<Pct(0)>>, !.pending = {1},
                                   !.calls = <<Upload(selectedFile, Folder("single"), 0)>>])
            /\ nextId' = [nextId EXCEPT !["run"] = @ + 1]
            /\ isGenerating' = TRUE
            /\ generationProgress' = Pct(0)
            /\ returned' = "none"
            /\ UNCHANGED <<user, activeTab, selectedFile, selectedDestination,
                           generateMultiple, useCustomModel, generatedImages,
                           trainingImages, currentModel, isTrainingModel,
                           trainingProgress, modVars, revoked>>

\* the upload resolves: look the destination up, build the prompt, call modifyImage
SingleUploadResolved(r) ==
    /\ runs[r].kind = "single" /\ runs[r].pc = "upload"
    /\ LET run == Pushed(runs[r], 1)
           destination == FindDestination(run.dest)
       IN IF destination = NoFind
          THEN /\ runs' = [runs EXCEPT ![r] = Finished(run, "nodestination", <<Pct(25)>>)]
               /\ AppGenerationFinally
          ELSE /\ runs' = [runs EXCEPT ![r] =
                     [run EXCEPT !.pc = "ai",
                                 !.sets = @ \o <<Pct(25), Pct(50)>>,
                                 !.calls = Append(@, TravelPhotoRequest(run.uploadedUrls[1],
                                              destination, run.multi, run.custom, run.model))]]
               /\ generationProgress' = Pct(50)
               /\ UNCHANGED isGenerating
    /\ UNCHANGED <<user, activeTab, selectedFile, selectedDestination, generateMultiple,
                   useCustomModel, generatedImages, trainingImages, currentModel,
                   isTrainingModel, trainingProgress, modVars, nextId, revoked, returned>>

\* modifyImage resolves with `data`
SingleAiResolved(r, data) ==
    /\ runs[r].kind = "single" /\ runs[r].pc = "ai"
    /\ LET run == runs[r]
           newImages == NewImages(data, FindDestination(run.dest), run.uploadedUrls[1], <<>>)
       IN IF Len(data) > 0
          THEN /\ runs' = [runs EXCEPT ![r] =
                     Finished([run EXCEPT !.reported = newImages], "ok", <<Pct(75), Pct(100)>>)]
               /\ generatedImages' = newImages \o generatedImages
          ELSE /\ runs' = [runs EXCEPT ![r] = Finished(run, "nodata", <<Pct(75)>>)]
               /\ UNCHANGED generatedImages
    /\ AppGenerationFinally
    /\ UNCHANGED <<user, activeTab, selectedFile, selectedDestination, generateMultiple,
                   useCustomModel, trainingImages, currentModel,
                   isTrainingModel, trainingProgress, modVars, nextId, revoked, returned>>

\* the pending upload or modifyImage call rejects: catch, finally
SingleRejected(r) ==
    /\ runs[r].kind = "single" /\ runs[r].pc \in {"upload", "ai"}
    /\ runs' = [runs EXCEPT ![r] = Finished(@, "rejected", <<>>)]
    /\ AppGenerationFinally
    /\ UNCHANGED <<user, activeTab, selectedFile, selectedDestination, generateMultiple,
                   useCustomModel, generatedImages, trainingImages, currentModel,
                   isTrainingModel, trainingProgress, modVars, nextId, revoked, returned>>

----------------------------------------------------------------------------
(* App: generateWithLoRAModel. *)

\* the "Generate 3 Travel Photos" button: model tab, model ready, not generating
LoRAButtonEnabled ==
    /\ AppRendered /\ activeTab = "model" /\ currentModel.status = "ready"
    /\ ~isGenerating
    /\ ~(selectedDestination = NoDest)

\* a variant without the test of the model's status
LoRAGuardAnyModel(dest, u, model) == dest # NoDest /\ u /\ model # NoModel

\* `if (!selectedDestination || !user || !currentModel ||
\*      currentModel.status !== 'ready') return`, negated
LoRAGuard(dest, u, model) ==
    dest # NoDest /\ u /\ model # NoModel /\ ~(model.status # "ready")

\* a variant that hands the model's training images to the service
LoRARequestWithModel(destination, model) ==
    ModifyImage(model.trainingImages,
                <<"[LoRA Model Generation]", destination.description, destination.name>>, 3)

\* the request generateWithLoRAModel builds; `model` is currentModel as captured
LoRARequest(destination, model) ==
    GenerateImage(<<"[LoRA Model Generation]", destination.description, destination.name>>, 3)

GenerateWithLoRAModel(ui) ==
    /\ AppPage
    /\ ui => LoRAButtonEnabled
    /\ IF ~LoRAGuard(selectedDestination, user, currentModel)
       THEN /\ returned' = "generateWithLoRAModel"
            /\ UNCHANGED progVars
       ELSE /\ CanStart
            /\ LET run == NewRun("lora", <<>>, selectedDestination,
                                 [user |-> user, dest |-> selectedDestination # NoDest,
                                  input |-> currentModel.status = "ready"])
                   destination == FindDestination(selectedDestination)
               IN IF destination = NoFind
                  THEN /\ runs' = Started(Finished(run, "nodestination", <<Pct(0)>>))
                       /\ AppGenerationFinally
                  ELSE /\ runs' = Started([run EXCEPT !.pc = "ai",
                                   !.sets = <<Pct(0), Pct(25), Pct(50)>>,
                                   !.calls = <<LoRARequest(destination, currentModel)>>])
                       /\ isGenerating' = TRUE
                       /\ generationProgress' = Pct(50)
            /\ nextId' = [nextId EXCEPT !["run"] = @ + 1]
            /\ returned' = "none"
            /\ UNCHANGED <<user, activeTab, selectedFile, selectedDestination,
                           generateMultiple, useCustomModel, generatedImages,
                           trainingImages, currentModel, isTrainingModel,
                           trainingProgress, modVars, revoked>>

\* generateImage resolves with `data`
LoRAAiResolved(r, data) ==
    /\ runs[r].kind = "lora" /\ runs[r].pc = "ai"
    /\ LET run == runs[r]
           newImages == NewImages(data, FindDestination(run.dest), "", <<>>)
       IN IF Len(data) > 0
          THEN /\ runs' = [runs EXCEPT ![r] =
                     Finished([run EXCEPT !.reported = newImages], "ok", <<Pct(75), Pct(100)>>)]
               /\ generatedImages' = newImages \o generatedImages
          ELSE /\ runs' = [runs EXCEPT ![r] = Finished(run, "nodata", <<Pct(75)>>)]
               /\ UNCHANGED generatedImages
    /\ AppGenerationFinally
    /\ UNCHANGED <<user, activeTab, selectedFile, selectedDestination, generateMultiple,
                   useCustomModel, trainingImages, currentModel,
                   isTrainingModel, trainingProgress, modVars, nextId, revoked, returned>>

\* generateImage rejects: catch, finally
LoRARejected(r) ==
    /\ runs[r].kind = "lora" /\ runs[r].pc = "ai"
    /\ runs' = [runs EXCEPT ![r] = Finished(@, "rejected", <<>>)]
    /\ AppGenerationFinally
    /\ UNCHANGED <<user, activeTab, selectedFile, selectedDestination, generateMultiple,
                   useCustomModel, generatedImages, trainingImages, currentModel,
                   isTrainingModel, trainingProgress, modVars, nextId, revoked, returned>>

----------------------------------------------------------------------------
(* InstantIDModule and PhotoMakerModule: the two components share their    *)
(* code up to constants, so their handlers are written once, for a module  *)
(* kind "instant" or "photomaker".  InstantIDModule gets its props from    *)
(* App.  No component of the repository mounts PhotoMakerModule: its host  *)
(* is taken to keep it mounted with a user, and to pass any string as      *)
(* selectedDestination.                                                    *)

ModuleState(kind) == IF kind = "instant" THEN instantID ELSE photoMaker
ModuleMounted(kind) == IF kind = "instant" THEN InstantIDMounted ELSE photoMaker.mounted
ModuleDestination(kind) ==
    IF kind = "instant" THEN selectedDestination ELSE photoMaker.selectedDestination
ModuleUser(kind) == IF kind = "instant" THEN user ELSE photoMaker.user
ModuleList(kind) == IF kind = "instant" THEN "reference" ELSE "photomaker"

\* a state update of the module instance that started the run; a detached run's
\* updates reach no mounted instance
SetModule(kind, attached, new) ==
    IF kind = "instant"
    THEN /\ instantID' = IF attached THEN new ELSE instantID
         /\ UNCHANGED <<faceSwap, photoMaker>>
    ELSE /\ photoMaker' = IF attached THEN new ELSE photoMaker
         /\ UNCHANGED <<instantID, faceSwap>>

\* a variant whose finally block also empties the module's input
WithGenerationResetsInput(state, busy, p) ==
    IF busy THEN [state EXCEPT !.isGenerating = busy, !.generationProgress = p]
    ELSE IF "facePortrait" \in DOMAIN state
         THEN [state EXCEPT !.isGenerating = busy, !.generationProgress = p,
                            !.facePortrait = NoFile]
         ELSE [state EXCEPT !.isGenerating = busy, !.generationProgress = p,
                            !.referenceImages = <<>>]

\* setGenerationProgress(p), and the finally block
WithGeneration(state, busy, p) ==
    [state EXCEPT !.isGenerating = busy, !.generationProgress = p]

\* handleFileSelect and handleDrop with k image files among the chosen files
HandleReferenceSelect(kind, k) ==
    /\ ModuleMounted(kind)
    /\ k >= 1
    /\ nextId[ModuleList(kind)] + k <= MaxReferencePreviews
    /\ SetModule(kind, TRUE,
                 [ModuleState(kind) EXCEPT
                     !.referenceImages = @ \o NewPreviews(ModuleList(kind), k)])
    /\ nextId' = [nextId EXCEPT ![ModuleList(kind)] = @ + k]
    /\ runs' = Kept
    /\ UNCHANGED <<appVars, revoked, returned>>

RemoveReferenceImage(kind, id) ==
    /\ ModuleMounted(kind)
    /\ id \in Range(ModuleState(kind).referenceImages)
    /\ revoked' = revoked \cup RevokedByRemove(ModuleState(kind).referenceImages, id)
    /\ SetModule(kind, TRUE,
                 [ModuleState(kind) EXCEPT !.referenceImages = Filter(@, id)])
    /\ runs' = Kept
    /\ UNCHANGED <<appVars, nextId, returned>>

ClearReferenceImages(kind) ==
    /\ ModuleMounted(kind)
    /\ Len(ModuleState(kind).referenceImages) > 0
    /\ revoked' = revoked \cup RevokedByClear(ModuleState(kind).referenceImages)
    /\ SetModule(kind, TRUE, [ModuleState(kind) EXCEPT !.referenceImages = <<>>])
    /\ runs' = Kept
    /\ UNCHANGED <<appVars, nextId, returned>>

\* the "Generate with ..." button: not generating, enabled
ReferenceButtonEnabled(kind) ==
    /\ ModuleMounted(kind)
    /\ ~ModuleState(kind).isGenerating
    /\ ~(Len(ModuleState(kind).referenceImages) = 0 \/ ModuleDestination(kind) = NoDest)

\* `if (referenceImages.length === 0 || !selectedDestination || !user) return`, negated
ReferenceGuard(images, dest, u) == ~(Len(images) = 0) /\ dest # NoDest /\ u

UploadSpan(kind) == IF kind = "instant" THEN UploadSpan30 ELSE UploadSpan25

\* the progress values set between the last upload and the modifyImage call
\* (the last before the destination lookup, the others after it), and after it
AfterUploads(kind) == IF kind = "instant" THEN <<40, 50, 70>> ELSE <<35, 45, 60>>
AfterAi(kind) == IF kind = "instant" THEN 90 ELSE 85

\* a variant that sends the first uploaded URL only
ReferenceRequestFirstOnly(kind, uploadedUrls, destination, multi, custom) ==
    ModifyImage(<<uploadedUrls[1]>>,
                <<"[InstantID Technology]", destination.description, destination.name>>, 3)

\* the request of generateWithInstantID and of generateWithPhotoMaker
ReferenceRequest(kind, uploadedUrls, destination, multi, custom) ==
    IF kind = "instant"
    THEN ModifyImage(uploadedUrls,
                     <<"[InstantID Technology]", destination.description, destination.name>>,
                     3)
    ELSE ModifyImage(uploadedUrls,
                     IF custom
                     THEN <<"[PhotoMaker Technology]", destination.description,
                            destination.name, "Additional Style Requirements">>
                     ELSE <<"[PhotoMaker Technology]", destination.description,
                            destination.name>>,
                     IF multi THEN 4 ELSE 2)

GenerateWithReferences(kind, ui) ==
    /\ ModuleMounted(kind)
    /\ ui => ReferenceButtonEnabled(kind)
    /\ LET state == ModuleState(kind)
           u == ModuleUser(kind)
       IN IF ~ReferenceGuard(state.referenceImages, ModuleDestination(kind), u)
          THEN /\ returned' = kind
               /\ UNCHANGED progVars
          ELSE /\ CanStart
               /\ LET run == [NewRun(kind, state.referenceImages, ModuleDestination(kind),
                                     [user |-> u, dest |-> ModuleDestination(kind) # NoDest,
                                      input |-> Len(state.referenceImages) > 0])
                              EXCEPT !.sets = <<Pct(0)>>,
                                     !.multi = IF kind = "instant" THEN FALSE
                                               ELSE state.generateMultiple,
                                     !.custom = IF kind = "instant" THEN FALSE
                                                ELSE state.customPrompt]
                  IN runs' = Started(EnterLoop(run, UploadSpan(kind)))
               /\ nextId' = [nextId EXCEPT !["run"] = @ + 1]
               /\ SetModule(kind, TRUE, WithGeneration(state, TRUE, Last(Last(runs').sets)))
               /\ returned' = "none"
               /\ UNCHANGED <<appVars, revoked>>

\* an upload resolves: the next upload, or the destination lookup and modifyImage
ReferenceUploadResolved(kind, r, j) ==
    /\ runs[r].kind = kind /\ runs[r].pc = "upload"
    /\ j \in runs[r].pending
    /\ LET run == EnterLoop(Pushed(runs[r], j), UploadSpan(kind))
           state == ModuleState(kind)
           destination == FindDestination(run.dest)
           steps == AfterUploads(kind)
       IN IF run.pending # {}
          THEN /\ runs' = [runs EXCEPT ![r] = run]
               /\ SetModule(kind, run.attached, WithGeneration(state, TRUE, Last(run.sets)))
          ELSE IF destination = NoFind
          THEN /\ runs' = [runs EXCEPT ![r] = Finished(run, "nodestination", <<Pct(steps[1])>>)]
               /\ SetModule(kind, run.attached, WithGeneration(state, FALSE, Pct(0)))
          ELSE /\ runs' = [runs EXCEPT ![r] =
                     [run EXCEPT !.pc = "ai",
                                 !.sets = @ \o [k \in 1..Len(steps) |-> Pct(steps[k])],
                                 !.calls = Append(@, ReferenceRequest(kind, run.uploadedUrls,
                                                      destination, run.multi, run.custom))]]
               /\ SetModule(kind, run.attached,
                            WithGeneration(state, TRUE, Pct(Last(steps))))
    /\ UNCHANGED <<appVars, nextId, revoked, returned>>

\* modifyImage resolves with `data`: each image goes to onImageGenerated, which in
\* App is handleInstantIDImageGenerated; PhotoMakerModule's host only receives them
ReferenceAiResolved(kind, r, data) ==
    /\ runs[r].kind = kind /\ runs[r].pc = "ai"
    /\ LET run == runs[r]
           newImages == NewImages(data, FindDestination(run.dest), "", run.uploadedUrls)
       IN
       /\ IF Len(data) > 0
          THEN /\ runs' = [runs EXCEPT ![r] =
                     Finished([run EXCEPT !.reported = newImages], "ok",
                              <<Pct(AfterAi(kind)), Pct(100)>>)]
               /\ generatedImages' = IF kind = "instant"
                                     THEN ForEachImageGenerated(newImages, generatedImages)
                                     ELSE generatedImages
          ELSE /\ runs' = [runs EXCEPT ![r] = Finished(run, "nodata", <<Pct(AfterAi(kind))>>)]
               /\ UNCHANGED generatedImages
       /\ SetModule(kind, run.attached, WithGeneration(ModuleState(kind), FALSE, Pct(0)))
    /\ UNCHANGED <<user, activeTab, selectedFile, selectedDestination, generateMultiple,
                   useCustomModel, isGenerating, generationProgress,
                   trainingImages, currentModel, isTrainingModel, trainingProgress,
                   nextId, revoked, returned>>

\* a pending upload or the modifyImage call rejects: catch, finally
ReferenceRejected(kind, r) ==
    /\ runs[r].kind = kind /\ runs[r].pc \in {"upload", "ai"}
    /\ runs' = [runs EXCEPT ![r] = Finished(@, "rejected", <<>>)]
    /\ SetModule(kind, runs[r].attached, WithGeneration(ModuleState(kind), FALSE, Pct(0)))
    /\ UNCHANGED <<appVars, nextId, revoked, returned>>

\* InstantIDModule
HandleInstantIDFileSelect(k) == HandleReferenceSelect("instant", k)
RemoveInstantIDImage(id) == RemoveReferenceImage("instant", id)
ClearInstantIDImages == ClearReferenceImages("instant")
GenerateWithInstantID(ui) == GenerateWithReferences("instant", ui)
InstantIDUploadResolved(r, j) == ReferenceUploadResolved("instant", r, j)
InstantIDAiResolved(r, data) == ReferenceAiResolved("instant", r, data)
InstantIDRejected(r) == ReferenceRejected("instant", r)

\* PhotoMakerModule
HandlePhotoMakerFileSelect(k) == HandleReferenceSelect("photomaker", k)
RemovePhotoMakerImage(id) == RemoveReferenceImage("photomaker", id)
ClearPhotoMakerImages == ClearReferenceImages("photomaker")
GenerateWithPhotoMaker(ui) == GenerateWithReferences("photomaker", ui)
PhotoMakerUploadResolved(r, j) == ReferenceUploadResolved("photomaker", r, j)
PhotoMakerAiResolved(r, data) == ReferenceAiResolved("photomaker", r, data)
PhotoMakerRejected(r) == ReferenceRejected("photomaker", r)

\* the host passes another selectedDestination; "atlantis" is in no destination list
SetPhotoMakerDestination(id) ==
    /\ photoMaker.mounted
    /\ id # photoMaker.selectedDestination
    /\ photoMaker' = [photoMaker EXCEPT !.selectedDestination = id]
    /\ runs' = Kept
    /\ UNCHANGED <<appVars, instantID, faceSwap, nextId, revoked, returned>>

\* the host passes a signed-in user, or none
SetPhotoMakerUser(u) ==
    /\ photoMaker.mounted
    /\ u # photoMaker.user
    /\ photoMaker' = [photoMaker EXCEPT !.user = u]
    /\ runs' = Kept
    /\ UNCHANGED <<appVars, instantID, faceSwap, nextId, revoked, returned>>

\* the custom prompt textarea (blank or not) and the variations checkbox
SetPhotoMakerOptions(custom, multiple) ==
    /\ photoMaker.mounted
    /\ <<custom, multiple>> # <<photoMaker.customPrompt, photoMaker.generateMultiple>>
    /\ photoMaker' = [photoMaker EXCEPT !.customPrompt = custom,
                                        !.generateMultiple = multiple]
    /\ runs' = Kept
    /\ UNCHANGED <<appVars, instantID, faceSwap, nextId, revoked, returned>>

----------------------------------------------------------------------------
(* FaceSwapModule. *)

\* a state update of the instance that started the run
SetFaceSwap(attached, new) ==
    /\ faceSwap' = IF attached THEN new ELSE faceSwap
    /\ UNCHANGED <<instantID, photoMaker>>

\* handleFileSelect and handleDrop with an image file; the drop zone and the file
\* input are rendered only while there is no portrait
HandlePortraitSelect ==
    /\ FaceSwapMounted
    /\ faceSwap.facePortrait = NoFile
    /\ nextId["portrait"] < MaxPortraits
    /\ SetFaceSwap(TRUE, [faceSwap EXCEPT !.facePortrait = NewPreviews("portrait", 1)[1]])
    /\ nextId' = [nextId EXCEPT !["portrait"] = @ + 1]
    /\ runs' = Kept
    /\ UNCHANGED <<appVars, revoked, returned>>

\* the previews removeFacePortrait revokes
RevokedByRemovePortrait(portrait) == IF portrait # NoFile THEN {portrait} ELSE {}

RemoveFacePortrait ==
    /\ FaceSwapMounted
    /\ faceSwap.facePortrait # NoFile
    /\ revoked' = revoked \cup RevokedByRemovePortrait(faceSwap.facePortrait)
    /\ SetFaceSwap(TRUE, [faceSwap EXCEPT !.facePortrait = NoFile])
    /\ runs' = Kept
    /\ UNCHANGED <<appVars, nextId, returned>>

\* the "Generate Face Swap" button: not generating, enabled
FaceSwapButtonEnabled ==
    /\ FaceSwapMounted
    /\ ~faceSwap.isGenerating
    /\ ~(faceSwap.facePortrait = NoFile \/ selectedDestination = NoDest)

\* `if (!facePortrait || !selectedDestination || !user) return`, negated
FaceSwapGuard(portrait, dest, u) == portrait # NoFile /\ dest # NoDest /\ u

\* the scene request, and the face-swap request built from the scene and the portrait
SceneRequest(destination) ==
    GenerateImage(<<"travel scene", destination.description, destination.name>>, 1)

\* a variant with the two images in the other order
FaceSwapRequestPortraitFirst(sceneData, portraitUrl, destination) ==
    ModifyImage(<<portraitUrl, sceneData[1].url>>,
                <<"[Advanced Face Swap]", destination.name>>, 3)

FaceSwapRequest(sceneData, portraitUrl, destination) ==
    ModifyImage(<<sceneData[1].url, portraitUrl>>,
                <<"[Advanced Face Swap]", destination.name>>, 3)

\* `if (!sceneData || sceneData.length === 0) throw`, negated
SceneUsable(sceneData) == ~(Len(sceneData) = 0)

GenerateWithFaceSwap(ui) ==
    /\ FaceSwapMounted
    /\ ui => FaceSwapButtonEnabled
    /\ IF ~FaceSwapGuard(faceSwap.facePortrait, selectedDestination, user)
       THEN /\ returned' = "faceswap"
            /\ UNCHANGED progVars
       ELSE /\ CanStart
            /\ LET run == NewRun("faceswap", <<faceSwap.facePortrait>>, selectedDestination,
                                 [user |-> user, dest |-> selectedDestination # NoDest,
                                  input |-> faceSwap.facePortrait # NoFile])
               IN runs' = Started([run EXCEPT !.sets = <<Pct(0)>>, !.pending = {1},
                                   !.calls = <<Upload(faceSwap.facePortrait,
                                                      Folder("faceswap"), 0)>>])
            /\ nextId' = [nextId EXCEPT !["run"] = @ + 1]
            /\ SetFaceSwap(TRUE, WithGeneration(faceSwap, TRUE, Pct(0)))
            /\ returned' = "none"
            /\ UNCHANGED <<appVars, revoked>>

\* the portrait upload resolves: look the destination up, call generateImage
FaceSwapUploadResolved(r) ==
    /\ runs[r].kind = "faceswap" /\ runs[r].pc = "upload"
    /\ LET run == Pushed(runs[r], 1)
           destination == FindDestination(run.dest)
       IN IF destination = NoFind
          THEN /\ runs' = [runs EXCEPT ![r] = Finished(run, "nodestination", <<Pct(25)>>)]
               /\ SetFaceSwap(run.attached, WithGeneration(faceSwap, FALSE, Pct(0)))
          ELSE /\ runs' = [runs EXCEPT ![r] =
                     [run EXCEPT !.pc = "scene",
                                 !.sets = @ \o <<Pct(25), Pct(40)>>,
                                 !.calls = Append(@, SceneRequest(destination))]]
               /\ SetFaceSwap(run.attached, WithGeneration(faceSwap, TRUE, Pct(40)))
    /\ UNCHANGED <<appVars, nextId, revoked, returned>>

\* generateImage resolves with the scene: call modifyImage, or throw on no scene
FaceSwapSceneResolved(r, sceneData) ==
    /\ runs[r].kind = "faceswap" /\ runs[r].pc = "scene"
    /\ LET run == runs[r] IN
       IF ~SceneUsable(sceneData)
       THEN /\ runs' = [runs EXCEPT ![r] = Finished(run, "noscene", <<>>)]
            /\ SetFaceSwap(run.attached, WithGeneration(faceSwap, FALSE, Pct(0)))
       ELSE /\ runs' = [runs EXCEPT ![r] =
                  [run EXCEPT !.pc = "swap",
                              !.scene = sceneData,
                              !.sets = Append(@, Pct(65)),
                              !.calls = Append(@,
                                  FaceSwapRequest(sceneData, run.uploadedUrls[1],
                                                  FindDestination(run.dest)))]]
            /\ SetFaceSwap(run.attached, WithGeneration(faceSwap, TRUE, Pct(65)))
    /\ UNCHANGED <<appVars, nextId, revoked, returned>>

\* modifyImage resolves with `finalData`: each image goes to onImageGenerated
FaceSwapFinalResolved(r, finalData) ==
    /\ runs[r].kind = "faceswap" /\ runs[r].pc = "swap"
    /\ LET run == runs[r]
           newImages == NewImages(finalData, FindDestination(run.dest),
                                  run.uploadedUrls[1], <<>>)
       IN
       /\ IF Len(finalData) > 0
          THEN /\ runs' = [runs EXCEPT ![r] =
                     Finished([run EXCEPT !.reported = newImages], "ok",
                              <<Pct(90), Pct(100)>>)]
               /\ generatedImages' = ForEachImageGenerated(newImages, generatedImages)
          ELSE /\ runs' = [runs EXCEPT ![r] = Finished(run, "nodata", <<Pct(90)>>)]
               /\ UNCHANGED generatedImages
       /\ SetFaceSwap(run.attached, WithGeneration(faceSwap, FALSE, Pct(0)))
    /\ UNCHANGED <<user, activeTab, selectedFile, selectedDestination, generateMultiple,
                   useCustomModel, isGenerating, generationProgress,
                   trainingImages, currentModel, isTrainingModel, trainingProgress,
                   nextId, revoked, returned>>

\* the pending upload, generateImage or modifyImage call rejects: catch, finally
FaceSwapRejected(r) ==
    /\ runs[r].kind = "faceswap" /\ runs[r].pc \in {"upload", "scene", "swap"}
    /\ runs' = [runs EXCEPT ![r] = Finished(@, "rejected", <<>>)]
    /\ SetFaceSwap(runs[r].attached, WithGeneration(faceSwap, FALSE, Pct(0)))
    /\ UNCHANGED <<appVars, nextId, revoked, returned>>

----------------------------------------------------------------------------
(* The initial state: the state after App's first render, nobody signed in. *)

Init ==
    /\ user = FALSE
    /\ activeTab = "single"
    /\ selectedFile = NoFile
    /\ selectedDestination = NoDest
    /\ generateMultiple = FALSE
    /\ useCustomModel = FALSE
    /\ isGenerating = FALSE
    /\ generationProgress = Pct(0)
    /\ generatedImages = <<>>
    /\ trainingImages = <<>>
    /\ currentModel = NoModel
    /\ isTrainingModel = FALSE
    /\ trainingProgress = Pct(0)
    /\ instantID = InitialInstantID
    /\ faceSwap = InitialFaceSwap
    /\ photoMaker \in {InitialPhotoMaker, [InitialPhotoMaker EXCEPT !.mounted = FALSE]}
    /\ runs = <<>>
    /\ nextId = [l \in PreviewLists \cup {"run"} |-> 0]
    /\ revoked = {}
    /\ returned = "none"

Files == {<<"photo", 1>>}
HostDestinations == {NoDest, "paris", "atlantis"}

\* the steps of the environment: promises resolve or reject, timers fire
TrainEnv ==
    \/ \E r \in RunIds : \E j \in runs[r].pending : TrainUploadResolved(r, j)
    \/ \E r \in RunIds : \E j \in runs[r].pending : TrainUploadRejected(r, j)
    \/ \E r \in RunIds : TrainTimerFired(r)

AppEnv ==
    \/ \E r \in RunIds : SingleUploadResolved(r)
    \/ \E r \in RunIds : \E data \in Responses("result", runs[r].id) : SingleAiResolved(r, data)
    \/ \E r \in RunIds : SingleRejected(r)
    \/ \E r \in RunIds : \E data \in Responses("result", runs[r].id) : LoRAAiResolved(r, data)
    \/ \E r \in RunIds : LoRARejected(r)

InstantIDEnv ==
    \/ \E r \in RunIds : \E j \in runs[r].pending : InstantIDUploadResolved(r, j)
    \/ \E r \in RunIds : \E data \in Responses("result", runs[r].id) : InstantIDAiResolved(r, data)
    \/ \E r \in RunIds : InstantIDRejected(r)

PhotoMakerEnv ==
    \/ \E r \in RunIds : \E j \in runs[r].pending : PhotoMakerUploadResolved(r, j)
    \/ \E r \in RunIds : \E data \in Responses("result", runs[r].id) : PhotoMakerAiResolved(r, data)
    \/ \E r \in RunIds : PhotoMakerRejected(r)

FaceSwapEnv ==
    \/ \E r \in RunIds : FaceSwapUploadResolved(r)
    \/ \E r \in RunIds : \E data \in Responses("scene", runs[r].id) : FaceSwapSceneResolved(r, data)
    \/ \E r \in RunIds : \E data \in Responses("result", runs[r].id) : FaceSwapFinalResolved(r, data)
    \/ \E r \in RunIds : FaceSwapRejected(r)

\* what the user can do in the rendered page, besides starting a run
Selections ==
    \/ Login
    \/ Logout
    \/ \E tab \in {"single", "model", "instant", "faceswap"} : SetActiveTab(tab)
    \/ \E id \in DestinationIds : SetSelectedDestination(id)
    \/ \E file \in Files \cup {NoFile} : HandleFileSelect(file)
    \/ \E checked \in BOOLEAN : SetGenerateMultiple(checked)
    \/ \E checked \in BOOLEAN : SetUseCustomModel(checked)

Previews ==
    \/ \E k \in 1..MaxTrainingPreviews : HandleMultipleFileSelect(k)
    \/ \E id \in Range(trainingImages) : RemoveTrainingImage(id)
    \/ ClearTrainingImages
    \/ \E k \in 1..MaxReferencePreviews : HandleInstantIDFileSelect(k)
    \/ \E id \in Range(instantID.referenceImages) : RemoveInstantIDImage(id)
    \/ ClearInstantIDImages
    \/ \E k \in 1..MaxReferencePreviews : HandlePhotoMakerFileSelect(k)
    \/ \E id \in Range(photoMaker.referenceImages) : RemovePhotoMakerImage(id)
    \/ ClearPhotoMakerImages
    \/ HandlePortraitSelect
    \/ RemoveFacePortrait

Host ==
    \/ \E u \in BOOLEAN : SetPhotoMakerUser(u)
    \/ \E id \in HostDestinations : SetPhotoMakerDestination(id)
    \/ \E custom \in BOOLEAN, multiple \in BOOLEAN : SetPhotoMakerOptions(custom, multiple)

\* The page: every handler is called by its button.
Next ==
    \/ Selections
    \/ Previews
    \/ Host
    \/ TrainLoRAModel(TRUE)
    \/ GenerateTravelPhoto(TRUE)
    \/ GenerateWithLoRAModel(TRUE)
    \/ GenerateWithInstantID(TRUE)
    \/ GenerateWithPhotoMaker(TRUE)
    \/ GenerateWithFaceSwap(TRUE)
    \/ TrainEnv
    \/ AppEnv
    \/ InstantIDEnv
    \/ PhotoMakerEnv
    \/ FaceSwapEnv

Spec == Init /\ [][Next]_vars

NextTrain ==
    \/ Login
    \/ Logout
    \/ \E tab \in {"single", "model"} : SetActiveTab(tab)
    \/ \E k \in 1..MaxTrainingPreviews : HandleMultipleFileSelect(k)
    \/ \E id \in Range(trainingImages) : RemoveTrainingImage(id)
    \/ ClearTrainingImages
    \/ TrainLoRAModel(TRUE)
    \/ \E r \in RunIds : \E j \in runs[r].pending : TrainUploadResolved(r, j)
    \/ \E r \in RunIds : \E j \in runs[r].pending : TrainUploadRejected(r, j)
    \/ \E r \in RunIds : TrainTimerFired(r)

SpecTrain == Init /\ [][NextTrain]_vars

----------------------------------------------------------------------------
(* The face-swap tab: FaceSwapModule under App. *)

NextFaceSwap ==
    \/ Login
    \/ Logout
    \/ \E tab \in {"single", "faceswap"} : SetActiveTab(tab)
    \/ \E id \in DestinationIds : SetSelectedDestination(id)
    \/ HandlePortraitSelect
    \/ RemoveFacePortrait
    \/ GenerateWithFaceSwap(TRUE)
    \/ FaceSwapEnv

SpecFaceSwap == Init /\ [][NextFaceSwap]_vars

IsUpload(call) == call.api = "upload"
IsAi(call) == call.api \in {"generateImage", "modifyImage"}
FaceSwapRuns == { r \in RunIds : runs[r].kind = "faceswap" }

\* the three calls of a face-swap run, in order, as far as the run got
FaceSwapPipeline(run) ==
    LET destination == FindDestination(run.dest)
        portraitUrl == PublicUrl(run.images[1])
    IN <<Upload(run.images[1], "face-portraits", 0),
         GenerateImage(<<"travel scene", destination.description, destination.name>>, 1)>>
       \o (IF run.scene = <<>> THEN <<>>
           ELSE <<ModifyImage(<<run.scene[1].url, portraitUrl>>,
                              <<"[Advanced Face Swap]", destination.name>>, 3)>>)

\* C3 (as amended): a face-swap run calls upload, then generateImage (n = 1) once
\* the upload has resolved, then modifyImage once a non-empty scene has arrived,
\* with images = [first scene URL, portrait URL]; a run that threw before the
\* modifyImage call (upload or generateImage rejected, destination unknown, scene
\* empty) never calls modifyImage, and a run that failed in any way reports no image.
C3_FaceSwapPipeline ==
    \A r \in FaceSwapRuns :
        LET run == runs[r]
            n == Len(run.calls)
        IN /\ n \in 1..3
           /\ run.calls = SubSeq(FaceSwapPipeline(run), 1, n)
           /\ n >= 2 => run.i = 1 /\ run.uploadedUrls = <<PublicUrl(run.images[1])>>
           /\ n = 3 <=> run.scene # <<>>
           /\ run.pc = "upload" => n = 1
           /\ run.pc = "scene" => n = 2
           /\ run.pc = "swap" => n = 3
           /\ run.outcome \in {"noscene", "nodestination"} => n < 3
           /\ run.outcome = "ok" => n = 3
           /\ Failed(run) => run.reported = <<>>
           /\ run.reported # <<>> => run.outcome = "ok"

\* a face-swap run has called modifyImage with the scene and the portrait
C3_Witness ==
    \E r \in FaceSwapRuns :
        /\ runs[r].pc = "swap"
        /\ Len(runs[r].calls) = 3
        /\ runs[r].calls[3].images = <<runs[r].scene[1].url, PublicUrl(runs[r].images[1])>>

\* C3 as stated: if the scene is empty or any stage rejects, modifyImage is never
\* called and no image is reported
C3_AsStated ==
    \A r \in FaceSwapRuns :
        runs[r].outcome \in {"noscene", "rejected"} =>
            /\ \A k \in 1..Len(runs[r].calls) : runs[r].calls[k].api # "modifyImage"
            /\ runs[r].reported = <<>>

----------------------------------------------------------------------------
(* The local previews of the mounted components and their object URLs. *)

NextPreviews ==
    \/ Login
    \/ Logout
    \/ \E tab \in {"single", "model", "instant", "faceswap"} : SetActiveTab(tab)
    \/ \E k \in 1..MaxTrainingPreviews : HandleMultipleFileSelect(k)
    \/ \E id \in Range(trainingImages) : RemoveTrainingImage(id)
    \/ ClearTrainingImages
    \/ \E k \in 1..MaxReferencePreviews : HandleInstantIDFileSelect(k)
    \/ \E id \in Range(instantID.referenceImages) : RemoveInstantIDImage(id)
    \/ ClearInstantIDImages
    \/ HandlePortraitSelect
    \/ RemoveFacePortrait

SpecPreviews == Init /\ [][NextPreviews]_vars

PortraitSet(state) == IF state.facePortrait = NoFile THEN {} ELSE {state.facePortrait}

\* the previews now in a list of a component
Listed ==
    Range(trainingImages) \cup Range(instantID.referenceImages) \cup PortraitSet(faceSwap)

\* a step in which previews leave a list of a component that stays mounted revokes
\* each of them, and a step revokes nothing that is in a list afterwards
RemovalRevokes ==
    /\ Range(trainingImages) \ Range(trainingImages') \subseteq revoked'
    /\ InstantIDMounted' =>
          Range(instantID.referenceImages) \ Range(instantID'.referenceImages)
              \subseteq revoked'
    /\ FaceSwapMounted' => PortraitSet(faceSwap) \ PortraitSet(faceSwap') \subseteq revoked'
    /\ (revoked' \ revoked) \cap Listed' = {}
    /\ revoked \subseteq revoked'

\* C10: removing a training image, a reference image or the face portrait, or
\* clearing a list, revokes the object URL of every preview it removes and takes
\* the preview out of the list, and no preview that is in a list has a revoked
\* object URL.
C10_RevokedOnRemoval == [](revoked \cap Listed = {}) /\ [][RemovalRevokes]_vars

\* previews of all three lists have been removed and revoked while others remain
C10_Witness ==
    /\ \E id \in revoked : id[1] = "training"
    /\ \E id \in revoked : id[1] = "reference"
    /\ \E id \in revoked : id[1] = "portrait"
    /\ Len(trainingImages) >= 2
    /\ revoked \cap Listed = {}

----------------------------------------------------------------------------
(* The four generation handlers, called in any state in which they exist. *)

\* the user sets the page up between runs
Idle == \A r \in RunIds : ~IsLive(runs[r])

NextGuards ==
    \/ Idle /\ Login
    \/ Idle /\ Logout
    \/ Idle /\ \E tab \in {"single", "instant", "faceswap"} : SetActiveTab(tab)
    \/ Idle /\ \E id \in DestinationIds : SetSelectedDestination(id)
    \/ Idle /\ \E file \in Files : HandleFileSelect(file)
    \/ Idle /\ \E k \in 1..MaxReferencePreviews : HandleInstantIDFileSelect(k)
    \/ Idle /\ \E k \in 1..MaxReferencePreviews : HandlePhotoMakerFileSelect(k)
    \/ Idle /\ HandlePortraitSelect
    \/ Idle /\ \E id \in HostDestinations : SetPhotoMakerDestination(id)
    \/ Idle /\ \E u \in BOOLEAN : SetPhotoMakerUser(u)
    \/ GenerateTravelPhoto(FALSE)
    \/ GenerateWithInstantID(FALSE)
    \/ GenerateWithPhotoMaker(FALSE)
    \/ GenerateWithFaceSwap(FALSE)
    \/ \E r \in RunIds : SingleUploadResolved(r)
    \/ \E r \in RunIds : \E data \in Responses("result", runs[r].id) : SingleAiResolved(r, data)
    \/ \E r \in RunIds : SingleRejected(r)
    \/ InstantIDEnv
    \/ PhotoMakerEnv
    \/ FaceSwapEnv

SpecGuards == Init /\ [][NextGuards]_vars


GenerationKinds == {"single", "instant", "photomaker", "faceswap"}

\* the step starts a run
StartsRun == nextId'["run"] = nextId["run"] + 1
StartedRun == runs'[Len(runs')]

\* a step that starts a generation run starts it in a state with a signed-in user,
\* a selected destination and the path's input, and the run's first call goes out
\* in that step
StartNeedsPreconditions ==
    StartsRun =>
        LET kind == StartedRun.kind
        IN /\ kind \in GenerationKinds
           /\ StartedRun.calls # <<>> /\ IsUpload(StartedRun.calls[1])
           /\ kind = "single" =>
                 user /\ selectedDestination # NoDest /\ selectedFile # NoFile
           /\ kind = "instant" =>
                 user /\ selectedDestination # NoDest
                 /\ Len(instantID.referenceImages) > 0
           /\ kind = "photomaker" =>
                 photoMaker.user /\ photoMaker.selectedDestination # NoDest
                 /\ Len(photoMaker.referenceImages) > 0
           /\ kind = "faceswap" =>
                 user /\ selectedDestination # NoDest /\ faceSwap.facePortrait # NoFile

\* a step in which a handler returns at its guard changes no state variable
ReturnChangesNothing ==
    (returned' # returned /\ returned' # "none") => UNCHANGED progVars

\* every external call was issued by a run, which recorded what held at its start
CallsHavePreconditions ==
    \A r \in RunIds :
        runs[r].kind \in GenerationKinds =>
            runs[r].pre.user /\ runs[r].pre.dest /\ runs[r].pre.input

\* C1: a generation run issues external calls only if, when it was started, a user
\* was signed in, a destination was selected and the input of its path was present
\* (selectedFile, a non-empty referenceImages, a facePortrait); a handler called
\* with a precondition missing returns with every state variable unchanged.
C1_GuardedGeneration ==
    /\ []CallsHavePreconditions
    /\ [][StartNeedsPreconditions /\ ReturnChangesNothing]_vars

\* generateTravelPhoto has returned at its guard for want of a photo while an
\* InstantID run, started with all its preconditions, is at the AI stage
C1_Witness ==
    /\ returned = "generateTravelPhoto"
    /\ user /\ selectedFile = NoFile
    /\ \E r \in RunIds : /\ runs[r].kind = "instant" /\ runs[r].pc = "ai"
                         /\ \E k \in 1..Len(runs[r].calls) : IsAi(runs[r].calls[k])

----------------------------------------------------------------------------
(* The model tab: training, and the two handlers that read the trained model,
   called in any state in which they exist. *)

NextModel ==
    \/ Idle /\ Login
    \/ Idle /\ Logout
    \/ Idle /\ \E tab \in {"single", "model"} : SetActiveTab(tab)
    \/ Idle /\ \E id \in DestinationIds : SetSelectedDestination(id)
    \/ Idle /\ \E file \in Files : HandleFileSelect(file)
    \/ Idle /\ \E k \in MinTrainingImages..MaxTrainingPreviews : HandleMultipleFileSelect(k)
    \/ Idle /\ \E checked \in BOOLEAN : SetUseCustomModel(checked)
    \/ TrainLoRAModel(TRUE)
    \/ GenerateWithLoRAModel(FALSE)
    \/ GenerateTravelPhoto(TRUE)
    \/ TrainEnv
    \/ AppEnv

SpecModel == Init /\ [][NextModel]_vars

\* trainLoRAModel called in any state in which it exists
NextTrainCalls ==
    \/ Idle /\ Login
    \/ Idle /\ Logout
    \/ Idle /\ \E tab \in {"single", "model"} : SetActiveTab(tab)
    \/ Idle /\ \E k \in 1..MaxTrainingPreviews : HandleMultipleFileSelect(k)
    \/ Idle /\ \E id \in Range(trainingImages) : RemoveTrainingImage(id)
    \/ Idle /\ ClearTrainingImages
    \/ TrainLoRAModel(FALSE)
    \/ TrainEnv

SpecTrainCalls == Init /\ [][NextTrainCalls]_vars


TrainRuns == { r \in RunIds : runs[r].kind = "train" }
LoRARuns == { r \in RunIds : runs[r].kind = "lora" }

\* the run with serial number id, while it is in the list
InTimerPhase(id) == \E r \in TrainRuns : runs[r].id = id /\ runs[r].pc = "timer"
TrainedBy(id) ==
    /\ \E r \in TrainRuns : runs[r].id = id /\ runs[r].pc = "done" /\ runs[r].outcome = "ok"
    /\ currentModel.status = "ready"
    /\ currentModel.progress = 100
    /\ useCustomModel

\* a training run past its uploads has called nothing but its uploads
TimerPhaseCallsNothing ==
    \A r \in TrainRuns :
        /\ \A k \in 1..Len(runs[r].calls) : IsUpload(runs[r].calls[k])
        /\ Len(runs[r].calls) <= Len(runs[r].images)
        /\ runs[r].pc = "timer" \/ runs[r].outcome = "ok" =>
              /\ Len(runs[r].calls) = Len(runs[r].images)
              /\ runs[r].i = Len(runs[r].images)

\* a step of a run in its timer phase leaves the model in training or makes it
\* ready, and the step in which the run ends makes it ready
TimerStep ==
    \A id \in 1..MaxRuns :
        InTimerPhase(id) =>
            /\ currentModel'.status \in {"training", "ready"}
            /\ ~InTimerPhase(id)' => TrainedBy(id)'

\* the page with the timers of a training run firing when they are due
SpecTrainFair == SpecTrain /\ WF_vars(\E r \in RunIds : TrainTimerFired(r))

\* C4: once the uploads of a trainLoRAModel run have succeeded the run makes no
\* further external call, no step of the timer phase sets status 'failed', and
\* with the timers firing the run ends with currentModel.status = 'ready',
\* currentModel.progress = 100 and useCustomModel = true.
C4_TimerSequence ==
    /\ []TimerPhaseCallsNothing
    /\ [][TimerStep]_vars
    /\ \A id \in 1..MaxRuns : InTimerPhase(id) ~> TrainedBy(id)

\* a training run has ended after its eight timers and the model is ready
C4_Witness ==
    \E r \in TrainRuns :
        /\ runs[r].outcome = "ok" /\ runs[r].t = Len(TrainingTimeline)
        /\ currentModel = CompletedModel(runs[r].uploadedUrls)
        /\ useCustomModel /\ ~isTrainingModel

\* a step that starts a training run starts it with at least five training images,
\* and a call with fewer returns leaving the four training cells and the runs as
\* they were
TrainStep ==
    /\ (StartsRun /\ StartedRun.kind = "train") => Len(trainingImages) >= 5
    /\ (returned' = "trainLoRAModel" /\ returned' # returned /\ Len(trainingImages) < 5) =>
          UNCHANGED <<isTrainingModel, trainingProgress, currentModel, useCustomModel,
                      runs, nextId>>

\* C5: trainLoRAModel never starts training with fewer than 5 training images; with
\* fewer it uploads nothing and leaves isTrainingModel, trainingProgress,
\* currentModel and useCustomModel unchanged.
C5_MinimumTrainingImages ==
    /\ [](\A r \in TrainRuns : Len(runs[r].images) >= 5)
    /\ [][TrainStep]_vars

\* trainLoRAModel, called by a signed-in user with a trained model and four
\* training images left, has returned at its guard
C5_Witness ==
    /\ returned = "trainLoRAModel"
    /\ user /\ Len(trainingImages) = 4
    /\ currentModel.status = "ready"

\* a step that starts a LoRA generation run starts it with a ready model and a
\* selected destination
LoRAStep ==
    (StartsRun /\ StartedRun.kind = "lora") =>
        /\ currentModel # NoModel
        /\ currentModel.status = "ready"
        /\ selectedDestination # NoDest

\* C6: generateWithLoRAModel issues a request only when currentModel exists with
\* status 'ready' and a destination is selected; it uploads nothing and calls
\* generateImage exactly once, with n = 3.
C6_LoRAPath ==
    /\ [](\A r \in LoRARuns :
             /\ Len(runs[r].calls) = 1
             /\ runs[r].calls[1].api = "generateImage"
             /\ runs[r].calls[1].n = 3
             /\ runs[r].model.status = "ready"
             /\ runs[r].dest # NoDest)
    /\ [][LoRAStep]_vars

\* a LoRA generation run has ended well after its one generateImage call
C6_Witness ==
    \E r \in LoRARuns : runs[r].outcome = "ok" /\ Len(runs[r].calls) = 1


\* other outcomes of the training uploads: any number of URLs of any previews
TrainingSets ==
    { [k \in 1..n |-> PublicUrl(<<"training", k + o>>)] :
          n \in 0..MaxTrainingPreviews, o \in 0..1 }

\* C7: the request generateWithLoRAModel sent for a destination, and the request
\* generateTravelPhoto sent with the custom-model option on, is the request the
\* handler builds from a model that differs only in its training images (their
\* number, files and URLs), whatever those are.
C7_NoModelProduced ==
    \A r \in RunIds : \A images \in TrainingSets :
        LET run == runs[r]
            other == [run.model EXCEPT !.trainingImages = images]
            destination == FindDestination(run.dest)
        IN /\ run.kind = "lora" =>
                 /\ run.calls = <<LoRARequest(destination, other)>>
                 /\ \A k \in DOMAIN run.calls[1].images :
                        run.calls[1].images[k] \notin Range(run.model.trainingImages)
           /\ (run.kind = "single" /\ run.custom /\ Len(run.calls) >= 2) =>
                 /\ run.calls[2] = TravelPhotoRequest(run.uploadedUrls[1], destination,
                                                       run.multi, run.custom, other)
                 /\ run.calls[2].images = <<run.uploadedUrls[1]>>

\* generateTravelPhoto has sent its request with the custom-model option on and a
\* model trained on six images
C7_Witness ==
    \E r \in RunIds :
        /\ runs[r].kind = "single" /\ runs[r].custom /\ runs[r].pc = "ai"
        /\ runs[r].model.status = "ready"
        /\ Len(runs[r].model.trainingImages) = 6
        /\ runs[r].calls[2].prompt[1] = "[LoRA Model Enhanced]"

----------------------------------------------------------------------------
(* Every handler that starts a run, called by its button. *)

NextRuns ==
    \/ Login
    \/ Logout
    \/ Idle /\ \E tab \in {"single", "model", "instant", "faceswap"} : SetActiveTab(tab)
    \/ Idle /\ \E id \in DestinationIds : SetSelectedDestination(id)
    \/ Idle /\ \E file \in Files : HandleFileSelect(file)
    \/ Idle /\ \E k \in 1..MaxTrainingPreviews : HandleMultipleFileSelect(k)
    \/ \E k \in 1..MaxReferencePreviews : HandleInstantIDFileSelect(k)
    \/ Idle /\ \E k \in 1..MaxReferencePreviews : HandlePhotoMakerFileSelect(k)
    \/ HandlePortraitSelect
    \/ Idle /\ Host
    \/ TrainLoRAModel(TRUE)
    \/ GenerateTravelPhoto(TRUE)
    \/ GenerateWithLoRAModel(TRUE)
    \/ GenerateWithInstantID(TRUE)
    \/ GenerateWithPhotoMaker(TRUE)
    \/ GenerateWithFaceSwap(TRUE)
    \/ TrainEnv
    \/ AppEnv
    \/ InstantIDEnv
    \/ PhotoMakerEnv
    \/ FaceSwapEnv

SpecRuns == Init /\ [][NextRuns]_vars


\* the three handlers that upload a list of images, called by their buttons
NextUploads ==
    \/ Login
    \/ Logout
    \/ \E tab \in {"model", "instant"} : SetActiveTab(tab)
    \/ Idle /\ \E id \in DestinationIds : SetSelectedDestination(id)
    \/ Idle /\ \E k \in 1..MaxTrainingPreviews : HandleMultipleFileSelect(k)
    \/ \E k \in 1..MaxReferencePreviews : HandleInstantIDFileSelect(k)
    \/ \E id \in Range(instantID.referenceImages) : RemoveInstantIDImage(id)
    \/ \E k \in 1..MaxReferencePreviews : HandlePhotoMakerFileSelect(k)
    \/ \E id \in Range(photoMaker.referenceImages) : RemovePhotoMakerImage(id)
    \/ Idle /\ Host
    \/ TrainLoRAModel(TRUE)
    \/ GenerateWithInstantID(TRUE)
    \/ GenerateWithPhotoMaker(TRUE)
    \/ TrainEnv
    \/ InstantIDEnv
    \/ PhotoMakerEnv

SpecUploads == Init /\ [][NextUploads]_vars


UploadRuns == { r \in RunIds : runs[r].kind \in {"train", "instant", "photomaker"} }
ReferenceRuns == { r \in RunIds : runs[r].kind \in {"instant", "photomaker"} }

\* the public URLs of the first n images of the list a run started with, in order
UrlsOf(run, n) == [k \in 1..n |-> PublicUrl(run.images[k])]

\* the uploads a run has issued: the calls to the storage service, in order
UploadsOf(run) == SelectSeq(run.calls, IsUpload)
AiCallsOf(run) == SelectSeq(run.calls, IsAi)

\* C2: in a run of trainLoRAModel, generateWithInstantID or generateWithPhotoMaker
\* upload i+1 is issued only after upload i has resolved, at most one upload of
\* the run is in flight, the AI endpoint is called only after every upload has
\* succeeded, and the URLs passed on (to the AI call, to the model record) are in
\* the order of the image list the run started with.
C2_SequentialUploads ==
    \A r \in UploadRuns :
        LET run == runs[r]
            issued == Len(UploadsOf(run))
        IN /\ Cardinality(run.pending) <= 1
           /\ run.pending \subseteq {run.i + 1}
           /\ issued = run.i + Cardinality(run.pending) \/ (run.pc = "done" /\ issued = run.i + 1)
           /\ \A k \in 1..issued :
                  /\ IsUpload(run.calls[k])
                  /\ run.calls[k].images = <<run.images[k]>>
           /\ run.uploadedUrls = UrlsOf(run, run.i)
           /\ AiCallsOf(run) # <<>> =>
                  /\ run.i = Len(run.images)
                  /\ run.pending = {}
                  /\ Len(run.calls) = issued + 1
                  /\ run.calls[issued + 1].images = UrlsOf(run, Len(run.images))
           /\ (run.kind = "train" /\ (run.pc = "timer" \/ run.outcome = "ok")) =>
                  /\ run.i = Len(run.images)
                  /\ currentModel.trainingImages = UrlsOf(run, Len(run.images))

\* a run with two images has its second upload in flight, the first having resolved
C2_Witness ==
    \E r \in ReferenceRuns :
        /\ Len(runs[r].images) = 2
        /\ runs[r].i = 1 /\ runs[r].pending = {2}
        /\ Len(runs[r].calls) = 2

\* C8: a run of generateWithInstantID or generateWithPhotoMaker that reaches the AI
\* stage makes exactly one modifyImage call, whose images argument is the list of
\* all the URLs uploaded in the run, and calls no other AI endpoint.
C8_OnlyModifyImage ==
    \A r \in ReferenceRuns :
        LET run == runs[r]
            ai == AiCallsOf(run)
        IN /\ Len(ai) <= 1
           /\ (run.pc = "ai" \/ run.outcome \in {"ok", "nodata"}) => Len(ai) = 1
           /\ \A k \in 1..Len(ai) :
                  /\ ai[k].api = "modifyImage"
                  /\ ai[k].images = run.uploadedUrls
                  /\ Len(ai[k].images) = Len(run.images)
           /\ \A k \in 1..Len(run.calls) : run.calls[k].api \in {"upload", "modifyImage"}

\* a PhotoMaker run with two reference images has ended well
C8_Witness ==
    \E r \in ReferenceRuns :
        /\ runs[r].kind = "photomaker" /\ runs[r].outcome = "ok"
        /\ Len(runs[r].images) = 2
        /\ Len(AiCallsOf(runs[r])) = 1


\* the values a run has passed to its progress setter before the reset of its
\* finally block
BeforeReset(run) ==
    IF run.pc = "done" THEN SubSeq(run.sets, 1, Len(run.sets) - 1) ELSE run.sets

\* the progress cell a run of this kind writes
ProgressCell(kind) ==
    CASE kind = "train" -> trainingProgress
      [] kind \in {"single", "lora"} -> generationProgress
      [] kind = "instant" -> instantID.generationProgress
      [] kind = "photomaker" -> photoMaker.generationProgress
      [] OTHER -> faceSwap.generationProgress

\* the bound of the upload phase of the handlers that upload a list
UploadBound(kind) == IF kind = "instant" THEN Pct(30) ELSE Pct(25)

\* C9: within a run the progress value is non-decreasing from the start of the run
\* to its final reset, lies in 0..100, stays strictly below the bound of the upload
\* phase (30 for InstantID, 25 for training and PhotoMaker) while uploads are in
\* progress, and reaches 100 only in a run that succeeds; the progress cell of the
\* component shows the last value a run in flight has set.
C9_ProgressBookkeeping ==
    \A r \in RunIds :
        LET run == runs[r]
            shown == BeforeReset(run)
        IN /\ Len(shown) >= 1 /\ shown[1] = Pct(0)
           /\ \A k \in 1..Len(run.sets) :
                  Leq(Pct(0), run.sets[k]) /\ Leq(run.sets[k], Pct(100))
           /\ \A k \in 1..(Len(shown) - 1) : Leq(shown[k], shown[k + 1])
           /\ run.pc = "done" => Last(run.sets) = Pct(0)
           /\ (run.kind \in {"train", "instant", "photomaker"} /\ run.pc = "upload") =>
                  \A k \in 1..Len(shown) : Less(shown[k], UploadBound(run.kind))
           /\ (\E k \in 1..Len(run.sets) : run.sets[k] = Pct(100)) => run.outcome = "ok"
           /\ run.outcome = "ok" => Last(shown) = Pct(100)
           /\ (IsLive(run) /\ run.attached) => ProgressCell(run.kind) = Last(run.sets)
           /\ Leq(Pct(0), ProgressCell(run.kind)) /\ Leq(ProgressCell(run.kind), Pct(100))

\* a training run on six images has ended well: its progress went through the
\* fractions of the upload phase and the steps of the timers up to 100
C9_Witness ==
    \E r \in TrainRuns :
        /\ runs[r].outcome = "ok"
        /\ Len(runs[r].images) = 6
        /\ Len(runs[r].sets) = 17
        /\ runs[r].sets[7] = Frac(125, 6)

----------------------------------------------------------------------------
(* The single tab next to the model tab: generateTravelPhoto by its button,
   while the options change and a training run goes on. *)

NextSingle ==
    \/ Login
    \/ Logout
    \/ \E tab \in {"single", "model"} : SetActiveTab(tab)
    \/ Idle /\ \E id \in DestinationIds : SetSelectedDestination(id)
    \/ Idle /\ \E file \in Files : HandleFileSelect(file)
    \/ Idle /\ \E k \in MinTrainingImages..MaxTrainingPreviews : HandleMultipleFileSelect(k)
    \/ \E checked \in BOOLEAN : SetGenerateMultiple(checked)
    \/ \E checked \in BOOLEAN : SetUseCustomModel(checked)
    \/ TrainLoRAModel(TRUE)
    \/ GenerateTravelPhoto(TRUE)
    \/ TrainEnv
    \/ \E r \in RunIds : SingleUploadResolved(r)
    \/ \E r \in RunIds : \E data \in Responses("result", runs[r].id) : SingleAiResolved(r, data)
    \/ \E r \in RunIds : SingleRejected(r)

SpecSingle == Init /\ [][NextSingle]_vars

SingleRuns == { r \in RunIds : runs[r].kind = "single" }

\* a step that starts a single-photo run records generateMultiple, useCustomModel
\* and currentModel as they are in the state the handler is called in
SingleStartCaptures ==
    (StartsRun /\ StartedRun.kind = "single") =>
        /\ StartedRun.multi = generateMultiple
        /\ StartedRun.custom = useCustomModel
        /\ StartedRun.model = currentModel
        /\ StartedRun.images = <<selectedFile>>

\* once issued, the calls of a run stay as they are
CallsOnlyGrow ==
    \A r \in RunIds : \A q \in 1..Len(runs') :
        runs'[q].id = runs[r].id =>
            /\ Len(runs'[q].calls) >= Len(runs[r].calls)
            /\ SubSeq(runs'[q].calls, 1, Len(runs[r].calls)) = runs[r].calls
            /\ runs'[q].multi = runs[r].multi
            /\ runs'[q].custom = runs[r].custom
            /\ runs'[q].model = runs[r].model

\* C11: a generateTravelPhoto run uploads once and, once the upload has resolved,
\* calls modifyImage once, with images = [the uploaded URL] and n = 3 if
\* generateMultiple was set when the run started and n = 1 otherwise; it makes no
\* other call, and a run whose upload rejected has not called modifyImage.
C11_SingleRunCalls ==
    /\ [](\A r \in SingleRuns :
            LET run == runs[r]
                n == Len(run.calls)
            IN /\ n \in 1..2
               /\ run.calls[1] = Upload(run.images[1], "originals", 0)
               /\ n = 2 <=> run.i = 1
               /\ (run.pc = "ai" \/ run.outcome \in {"ok", "nodata"}) => n = 2
               /\ n = 2 =>
                     /\ run.calls[2].api = "modifyImage"
                     /\ run.calls[2].images = <<PublicUrl(run.images[1])>>
                     /\ run.calls[2].images = run.uploadedUrls
                     /\ run.calls[2].n = IF run.multi THEN 3 ELSE 1
               /\ (run.outcome = "rejected" /\ run.i = 0) =>
                     \A k \in 1..n : run.calls[k].api # "modifyImage")
    /\ [][SingleStartCaptures /\ CallsOnlyGrow]_vars

\* a run started with generateMultiple set has asked for three images, and the
\* checkbox has been cleared since
C11_Witness ==
    \E r \in SingleRuns :
        /\ runs[r].pc = "ai" /\ Len(runs[r].calls) = 2
        /\ runs[r].calls[2].n = 3
        /\ ~generateMultiple

LoRAEnhanced(call) == call.prompt[1] = "[LoRA Model Enhanced]"
FacePreservation(call) == call.prompt[1] = "face preservation"

\* C12: the request of a generateTravelPhoto run carries the LoRA-enhanced prompt
\* if useCustomModel was true and currentModel had status 'ready' when the run was
\* started, and the plain face-preservation prompt in every other case, whatever
\* the checkbox and the model are when the request is sent.
C12_PromptChoice ==
    /\ [](\A r \in SingleRuns :
            LET run == runs[r] IN
            Len(run.calls) = 2 =>
                /\ LoRAEnhanced(run.calls[2]) <=>
                       (run.custom /\ run.model # NoModel /\ run.model.status = "ready")
                /\ FacePreservation(run.calls[2]) <=> ~LoRAEnhanced(run.calls[2])
                /\ run.calls[2].prompt[2] = FindDestination(run.dest).description
                /\ run.calls[2].prompt[3] = FindDestination(run.dest).name)
    /\ [][SingleStartCaptures /\ CallsOnlyGrow]_vars

\* a run started while the model was training has sent the plain prompt although
\* the model is ready and useCustomModel is true by now
C12_Witness ==
    \E r \in SingleRuns :
        /\ Len(runs[r].calls) = 2 /\ FacePreservation(runs[r].calls[2])
        /\ runs[r].model.status = "training"
        /\ useCustomModel /\ currentModel.status = "ready"

----------------------------------------------------------------------------
(* The end of a run, the gallery, and runs that overlap: checked with every
   handler called by its button (SpecRuns). *)

\* the busy flag a run of this kind sets, in the component that started it
BusyFlag(kind) ==
    CASE kind = "train" -> isTrainingModel
      [] kind \in {"single", "lora"} -> isGenerating
      [] kind = "instant" -> instantID.isGenerating
      [] kind = "photomaker" -> photoMaker.isGenerating
      [] OTHER -> faceSwap.isGenerating

\* the kinds of run that write the same busy flag and progress cell
SameCell(kind) == IF kind \in {"single", "lora"} THEN {"single", "lora"} ELSE {kind}

\* a run in flight whose component instance is still there
Busy(kind) ==
    \E r \in RunIds : runs[r].kind \in SameCell(kind) /\ IsLive(runs[r]) /\ runs[r].attached

\* the step in which a run ends clears the flag and the progress of its component
EndClears ==
    \A r \in RunIds :
        (IsLive(runs[r]) /\ Len(runs') >= r /\ runs'[r].id = runs[r].id /\ ~IsLive(runs'[r])) =>
            /\ Last(runs'[r].sets) = Pct(0)
            /\ runs[r].attached => /\ ~BusyFlag(runs[r].kind)'
                                   /\ ProgressCell(runs[r].kind)' = Pct(0)

\* C13: when a run ends, by success or by a failure at any step, its busy flag
\* (isGenerating or isTrainingModel) is false and its progress is 0; they stay so
\* until the next run of the component starts.
C13_FinallyClears ==
    /\ [](\A kind \in {"train", "single", "lora", "instant", "photomaker", "faceswap"} :
            /\ BusyFlag(kind) <=> Busy(kind)
            /\ ~BusyFlag(kind) => ProgressCell(kind) = Pct(0))
    /\ [](\A r \in RunIds : ~IsLive(runs[r]) => Last(runs[r].sets) = Pct(0))
    /\ [][EndClears]_vars

\* two runs have ended, one by success and one by failure after its uploads, and
\* nothing is busy
C13_Witness ==
    /\ \E r, q \in RunIds :
          /\ runs[r].pc = "done" /\ runs[r].outcome = "ok"
          /\ runs[q].pc = "done" /\ Failed(runs[q]) /\ runs[q].i > 0
    /\ ~isGenerating /\ ~isTrainingModel /\ ~instantID.isGenerating
    /\ ~faceSwap.isGenerating /\ ~photoMaker.isGenerating

\* the runs that generate images
GeneratingKinds == {"single", "lora", "instant", "photomaker", "faceswap"}

\* run r takes a step, and the step ends it by a failure
FailsNow(r) ==
    /\ runs[r].kind \in GeneratingKinds
    /\ IsLive(runs[r]) /\ Len(runs') >= r /\ runs'[r].id = runs[r].id
    /\ ~IsLive(runs'[r]) /\ Failed(runs'[r])

\* run r takes a step, and the step ends it by success
SucceedsNow(r) ==
    /\ runs[r].kind \in GeneratingKinds
    /\ IsLive(runs[r]) /\ Len(runs') >= r /\ runs'[r].id = runs[r].id
    /\ runs'[r].outcome = "ok"

\* the inputs and options the user has chosen
SelectionsUnchanged ==
    /\ UNCHANGED <<selectedFile, selectedDestination, generateMultiple, useCustomModel,
                   trainingImages, currentModel, activeTab, user>>
    /\ instantID'.referenceImages = instantID.referenceImages
    /\ faceSwap'.facePortrait = faceSwap.facePortrait
    /\ photoMaker'.referenceImages = photoMaker.referenceImages
    /\ photoMaker'.selectedDestination = photoMaker.selectedDestination
    /\ photoMaker'.customPrompt = photoMaker.customPrompt
    /\ photoMaker'.generateMultiple = photoMaker.generateMultiple

\* the step in which a generation run fails changes neither the gallery nor a
\* selection, and the gallery changes in no step but one that ends a run by success
FailureFrame ==
    /\ \A r \in RunIds : FailsNow(r) => (UNCHANGED generatedImages /\ SelectionsUnchanged)
    /\ generatedImages' # generatedImages => \E r \in RunIds : SucceedsNow(r)

\* C14: a generation run that fails (a rejected upload or AI call, an unknown
\* destination, an empty AI result) changes generatedImages in none of its steps,
\* and its failure leaves selectedFile, selectedDestination, the reference images,
\* the portrait and currentModel as they are.
C14_FailureFrame ==
    /\ [](\A r \in RunIds :
            (runs[r].kind \in GeneratingKinds /\ runs[r].outcome # "ok") =>
                runs[r].reported = <<>>)
    /\ [][FailureFrame]_vars

\* an InstantID run has failed on an empty AI result with images of an earlier run
\* in the gallery, and its reference images are still listed
C14_Witness ==
    \E r \in RunIds :
        /\ runs[r].kind = "instant" /\ runs[r].outcome = "nodata" /\ runs[r].attached
        /\ generatedImages # <<>>
        /\ instantID.referenceImages # <<>>
        /\ ~instantID.isGenerating

----------------------------------------------------------------------------
(* Training runs that fail. *)

\* C15 as stated: a training run that has failed has left currentModel with status
\* 'failed'.
C15_FailedStatus ==
    \A r \in TrainRuns :
        (runs[r].pc = "done" /\ Failed(runs[r])) => currentModel.status = "failed"

----------------------------------------------------------------------------
(* Termination: the page with every pending promise settled and every timer
   fired in the end. *)

\* a step of the environment
EnvNext == TrainEnv \/ AppEnv \/ InstantIDEnv \/ PhotoMakerEnv \/ FaceSwapEnv

\* the run with serial number id is in flight
InFlight(id) == \E r \in RunIds : runs[r].id = id /\ IsLive(runs[r])

\* the promise or timer the run with serial number id awaits settles
Settles(id) ==
    /\ EnvNext
    /\ \E r \in RunIds :
          /\ runs[r].id = id /\ Len(runs') >= r /\ runs'[r].id = id
          /\ Len(runs'[r].sets) > Len(runs[r].sets)

\* every handler that starts a run, called by its button; the user signs out and
\* in and picks reference images and a portrait at any time, and sets the rest of
\* the page up between runs
NextEnds ==
    \/ Login
    \/ Logout
    \/ Idle /\ \E tab \in {"single", "model", "instant", "faceswap"} : SetActiveTab(tab)
    \/ Idle /\ SetSelectedDestination("paris")
    \/ Idle /\ \E file \in Files : HandleFileSelect(file)
    \/ Idle /\ HandleMultipleFileSelect(MinTrainingImages)
    \/ \E k \in 1..MaxReferencePreviews : HandleInstantIDFileSelect(k)
    \/ Idle /\ \E k \in 1..MaxReferencePreviews : HandlePhotoMakerFileSelect(k)
    \/ HandlePortraitSelect
    \/ Idle /\ Host
    \/ TrainLoRAModel(TRUE)
    \/ GenerateTravelPhoto(TRUE)
    \/ GenerateWithLoRAModel(TRUE)
    \/ GenerateWithInstantID(TRUE)
    \/ GenerateWithPhotoMaker(TRUE)
    \/ GenerateWithFaceSwap(TRUE)
    \/ EnvNext

SpecEnds == Init /\ [][NextEnds]_vars

SpecEndsFair == SpecEnds /\ \A id \in 1..MaxRuns : WF_vars(Settles(id))

\* the step in which a training run ends does not leave the model in training
TrainEndStep ==
    \A r \in TrainRuns :
        (IsLive(runs[r]) /\ Len(runs') >= r /\ runs'[r].id = runs[r].id /\ ~IsLive(runs'[r])) =>
            /\ currentModel'.status # "training"
            /\ ~isTrainingModel'

\* C16: with every external call resolving or rejecting and every timer firing in
\* the end, every run that was started ends, and the step that ends it clears its
\* busy flag; a training run that has ended has not left currentModel in status
\* 'training'.
C16_Termination ==
    /\ \A id \in 1..MaxRuns : InFlight(id) ~> ~InFlight(id)
    /\ [][EndClears /\ TrainEndStep]_vars
    /\ [](\A r \in TrainRuns : ~IsLive(runs[r]) => currentModel.status # "training")

\* a run whose module was unmounted by a sign-out has ended, and so has the run
\* started after it
C16_Witness ==
    \E r, q \in RunIds :
        /\ runs[r].id < runs[q].id
        /\ runs[r].pc = "done" /\ ~runs[r].attached
        /\ runs[q].pc = "done" /\ runs[q].attached /\ runs[q].outcome = "ok"

----------------------------------------------------------------------------
(* The gallery. *)

\* the runs whose images reach App's gallery (PhotoMakerModule's host only
\* receives them)
GalleryKinds == {"single", "lora", "instant", "faceswap"}

\* the items the AI service returned to the run numbered id, n of them
Returned(id, n) == [k \in 1..n |-> [url |-> <<"result", id, k>>]]

\* the step in which a run succeeds puts one entry per returned item in front of
\* the gallery as it was, each with the name of the run's destination
SuccessAdds ==
    \A r \in RunIds :
        (SucceedsNow(r) /\ runs[r].kind \in GalleryKinds) =>
            LET batch == runs'[r].reported
                n == Len(batch)
                front == SubSeq(generatedImages', 1, n)
            IN /\ n \in 1..MaxData
               /\ [k \in 1..n |-> [url |-> batch[k].url]] = Returned(runs[r].id, n)
               /\ Len(generatedImages') = Len(generatedImages) + n
               /\ SubSeq(generatedImages', n + 1, Len(generatedImages')) = generatedImages
               /\ Range(front) = Range(batch)
               /\ \A k \in 1..n : front[k].destination = FindDestination(runs[r].dest).name
               /\ FindDestination(runs[r].dest) # NoFind

\* C17: a successful generation run adds to generatedImages one entry per item the
\* AI service returned, whatever n it asked for, each with the name of the run's
\* destination, all in front of the entries that were there, which stay as they
\* are and in their order.
C17_SuccessAdds == [][SuccessAdds]_vars

\* a run that asked for three images and got two has put them in front of the two
\* images of an earlier run
C17_Witness ==
    \E r \in RunIds :
        /\ runs[r].kind \in {"instant", "faceswap"} /\ runs[r].outcome = "ok"
        /\ Len(runs[r].reported) = 2
        /\ Last(runs[r].calls).n = 3
        /\ Len(generatedImages) = 4
        /\ Range(SubSeq(generatedImages, 1, 2)) = Range(runs[r].reported)

\* the place of an image of the gallery
PositionOf(url) == CHOOSE p \in 1..Len(generatedImages) : generatedImages[p].url = url

\* C18 as stated: on every generation path the images of a successful batch are in
\* generatedImages in the relative order in which the AI service returned them.
C18_BatchOrder ==
    \A r \in RunIds :
        (runs[r].kind \in GalleryKinds /\ runs[r].outcome = "ok") =>
            \A j, k \in 1..Len(runs[r].reported) :
                j < k => PositionOf(<<"result", runs[r].id, j>>)
                            < PositionOf(<<"result", runs[r].id, k>>)

\* the single tab and the two module tabs, with the tabs switched while a run is
\* in flight
NextOverlap ==
    \/ Login
    \/ Logout
    \/ \E tab \in {"single", "instant", "faceswap"} : SetActiveTab(tab)
    \/ Idle /\ \E id \in DestinationIds : SetSelectedDestination(id)
    \/ Idle /\ \E file \in Files : HandleFileSelect(file)
    \/ \E k \in 1..MaxReferencePreviews : HandleInstantIDFileSelect(k)
    \/ HandlePortraitSelect
    \/ GenerateTravelPhoto(TRUE)
    \/ GenerateWithInstantID(TRUE)
    \/ GenerateWithFaceSwap(TRUE)
    \/ \E r \in RunIds : SingleUploadResolved(r)
    \/ \E r \in RunIds : \E data \in Responses("result", runs[r].id) : SingleAiResolved(r, data)
    \/ \E r \in RunIds : SingleRejected(r)
    \/ InstantIDEnv
    \/ FaceSwapEnv

SpecOverlap == Init /\ [][NextOverlap]_vars

----------------------------------------------------------------------------
(* The object URLs of the previews. *)

\* the object URLs created so far by the handlers that add previews
CreatedUrls == UNION { { <<list, k>> : k \in 1..nextId[list] } : list \in PreviewLists }

\* created and not yet revoked
LiveUrls == CreatedUrls \ revoked

\* the previews held in the state of a mounted component
HeldPreviews == Listed \cup Range(photoMaker.referenceImages)

\* C20 as stated: the live preview object URLs are the URLs of the previews held in
\* component state; none stays live after its module is unmounted.
C20_LiveUrlsAreHeld == LiveUrls = HeldPreviews

====
